---- MODULE Spec2Model ----
(***************************************************************************)
(* A model of cryptography/x509/base.py: the Extensions container, the     *)
(* CertificateSigningRequestBuilder and the CertificateBuilder.            *)
(*                                                                         *)
(* Python objects are records tagged with their class ("type").  Builder   *)
(* objects never have an attribute assigned outside __init__, so a builder *)
(* is represented by the record of its attributes; the one mutable object  *)
(* a builder refers to is its extension list, which lives in a heap of     *)
(* list objects (lists) and is referred to by address, so that two         *)
(* builders sharing one list object really share it in the model.          *)
(***************************************************************************)
EXTENDS Integers, Sequences, FiniteSets, TLC

VARIABLES
    lists,      \* heap of Python list objects: address -> sequence of Extension
    base,       \* a builder every caller may restart from
    held,       \* held[c]: the builder caller c currently holds
    solo,       \* solo[c]: what caller c holds in a world where it runs alone
    container,  \* the list wrapped by an Extensions object
    last        \* the last call: receiver, arguments, outcome, backend calls

vars == <<lists, base, held, solo, container, last>>

----------------------------------------------------------------------------
(* Python values *)

None == [type |-> "NoneType"]

\* x509.Name objects and a str, which is not a Name
Name(s) == [type |-> "Name", value |-> s]
Str(s) == [type |-> "str", value |-> s]

\* public key objects of the three accepted interfaces, and a private key
PublicKey(cls, id) == [type |-> cls, id |-> id]

\* Python integers are unbounded: an integer is its sign and the binary
\* digits of its magnitude, most significant first, without leading zeros
\* (zero has no digits).
PyInt(neg, bits) == [type |-> "int", neg |-> neg, bits |-> bits]
Zero == PyInt(FALSE, <<>>)
MinusOne == PyInt(TRUE, <<1>>)
\* 2**e
Pow2(e) == PyInt(FALSE, [i \in 1..(e + 1) |-> IF i = 1 THEN 1 ELSE 0])
\* 2**e - 1
Pow2Minus1(e) == PyInt(FALSE, [i \in 1..e |-> 1])

\* (naive) datetime objects, as the number of seconds after 1970-01-01 00:00:00
Datetime(s) == [type |-> "datetime", seconds |-> s]

isinstance(x, classes) == x.type \in classes

\* cryptography.utils.bit_length(x): int.bit_length, the number of binary
\* digits of the magnitude
bit_length(x) == Len(x.bits)

\* number < 0
IsNegative(x) == x.neg

_UNIX_EPOCH == Datetime(0)

----------------------------------------------------------------------------
(* Exceptions and the outcome of a call *)

NoException == [class |-> "none"]
TypeError(msg) == [class |-> "TypeError", msg |-> msg]
ValueError(msg) == [class |-> "ValueError", msg |-> msg]
DuplicateExtension(msg, oid) == [class |-> "DuplicateExtension", msg |-> msg, oid |-> oid]
ExtensionNotFound(msg, oid) == [class |-> "ExtensionNotFound", msg |-> msg, oid |-> oid]

\* a call returns value, or raises exc; heap is the list heap it leaves and
\* calls the backend calls it made
Return(value, heap, calls) ==
    [exc |-> NoException, value |-> value, heap |-> heap, calls |-> calls]
Raise(exc, heap) ==
    [exc |-> exc, value |-> None, heap |-> heap, calls |-> <<>>]

----------------------------------------------------------------------------
(* Extension values and Extension *)

\* the class attribute oid of each ExtensionType
OCSPNoCheck == [type |-> "OCSPNoCheck", oid |-> "OCSP_NO_CHECK"]
BasicConstraints(ca, path_length) ==
    [type |-> "BasicConstraints", oid |-> "BASIC_CONSTRAINTS",
     _ca |-> ca, _path_length |-> path_length]

\* the classes registered as ExtensionType that the model builds
ExtensionType ==
    {"OCSPNoCheck", "BasicConstraints", "KeyUsage", "NameConstraints",
     "AuthorityKeyIdentifier"}

ObjectIdentifier ==
    {"OCSP_NO_CHECK", "BASIC_CONSTRAINTS", "KEY_USAGE", "NAME_CONSTRAINTS",
     "AUTHORITY_KEY_IDENTIFIER"}

\* bool objects
PyBool(b) == [type |-> "bool", value |-> b]

\* an object that is neither an ExtensionType, a Name, a key, an int nor a
\* datetime
PyObject == [type |-> "object"]

\* the Extension object Extension.__init__ leaves when it raises nothing
Extension(oid, critical, value) ==
    [type |-> "Extension", oid |-> oid, critical |-> critical, value |-> value]

\* Extension.__init__: the exception it raises, NoException when it returns
\* (every oid of the model is an ObjectIdentifier)
Extension_init(oid, critical, value) ==
    IF oid \notin ObjectIdentifier
    THEN TypeError("oid argument must be an ObjectIdentifier instance.")
    ELSE IF ~isinstance(critical, {"bool"})
    THEN TypeError("critical must be a boolean value")
    ELSE NoException

----------------------------------------------------------------------------
(* The heap of list objects *)

\* the list objects created once, when the def statements run: the default
\* value of the extensions parameter of each __init__
DefaultCSRExtensions == 1
DefaultCertExtensions == 2
DefaultLists == {DefaultCSRExtensions, DefaultCertExtensions}

\* a fresh address
NewAddr(heap) ==
    CHOOSE a \in 1..(Cardinality(DOMAIN heap) + 1) :
        /\ a \notin DOMAIN heap
        /\ \A b \in 1..(a - 1) : b \in DOMAIN heap

\* heap with a new list object holding seq at address a
Alloc(heap, a, seq) == [x \in (DOMAIN heap) \cup {a} |-> IF x = a THEN seq ELSE heap[x]]

\* list objects no live object refers to are reclaimed
Collect(heap, live) == [x \in (DOMAIN heap) \cap (live \cup DefaultLists) |-> heap[x]]

----------------------------------------------------------------------------
(* Extensions *)

\* Extensions.__init__(self, extensions): the object keeps the list it is
\* given
Extensions(extensions) == [type |-> "Extensions", _extensions |-> extensions]

\* the for loop of get_extension_for_oid over iter(self._extensions), from
\* item i on: the first ext with ext.oid == oid, None when the loop ends
\* the loop keeping the last match instead of returning at the first
RECURSIVE ScanForLastOid(_, _, _)
ScanForLastOid(seq, i, oid) ==
    IF i > Len(seq) THEN None
    ELSE IF ScanForLastOid(seq, i + 1, oid) # None THEN ScanForLastOid(seq, i + 1, oid)
    ELSE IF seq[i].oid = oid THEN seq[i]
    ELSE None

RECURSIVE ScanForOid(_, _, _)
ScanForOid(seq, i, oid) ==
    IF i > Len(seq) THEN None
    ELSE IF seq[i].oid = oid THEN seq[i]
    ELSE ScanForOid(seq, i + 1, oid)

Extensions_get_extension_for_oid(self, oid, heap) ==
    LET ext == ScanForOid(heap[self._extensions], 1, oid)
    IN IF ext # None
       THEN Return(ext, heap, <<>>)
       ELSE Raise(ExtensionNotFound("No {0} extension was found", oid), heap)

----------------------------------------------------------------------------
(* CertificateSigningRequestBuilder *)

\* __init__(self, subject_name=None, extensions=[])
CertificateSigningRequestBuilder(subject_name, extensions) ==
    [type |-> "CertificateSigningRequestBuilder",
     _subject_name |-> subject_name,
     _extensions |-> extensions]

\* the for loop of add_extension: some e in the list has e.oid == oid
HasOid(seq, oid) == \E i \in 1..Len(seq) : seq[i].oid = oid

CertificateSigningRequestBuilder_subject_name(self, name, heap) ==
    IF ~isinstance(name, {"Name"})
    THEN Raise(TypeError("Expecting x509.Name object."), heap)
    ELSE IF self._subject_name # None
    THEN Raise(ValueError("The subject name may only be set once."), heap)
    ELSE Return(CertificateSigningRequestBuilder(name, self._extensions), heap, <<>>)

\* the loop comparing the values ("e.value == extension") for the oids: a
\* second, different value of one extension type is accepted
CertificateSigningRequestBuilder_add_extension_by_value(self, extension, critical, heap) ==
    IF ~isinstance(extension, ExtensionType)
    THEN Raise(TypeError("extension must be an ExtensionType"), heap)
    ELSE IF Extension_init(extension.oid, critical, extension) # NoException
    THEN Raise(Extension_init(extension.oid, critical, extension), heap)
    ELSE IF \E i \in 1..Len(heap[self._extensions]) :
                heap[self._extensions][i].value = extension
    THEN Raise(ValueError("This extension has already been set."), heap)
    ELSE LET new == NewAddr(heap)
             ext == Extension(extension.oid, critical, extension)
         IN Return(CertificateSigningRequestBuilder(self._subject_name, new),
                   Alloc(heap, new, Append(heap[self._extensions], ext)), <<>>)

\* "self._extensions.append(extension)" for "self._extensions + [extension]"
\* in the request builder: the receiver's list object, the default list of
\* __init__ included, is extended and handed on
CertificateSigningRequestBuilder_add_extension_in_place(self, extension, critical, heap) ==
    IF ~isinstance(extension, ExtensionType)
    THEN Raise(TypeError("extension must be an ExtensionType"), heap)
    ELSE IF Extension_init(extension.oid, critical, extension) # NoException
    THEN Raise(Extension_init(extension.oid, critical, extension), heap)
    ELSE IF HasOid(heap[self._extensions], extension.oid)
    THEN Raise(ValueError("This extension has already been set."), heap)
    ELSE LET ext == Extension(extension.oid, critical, extension)
         IN Return(CertificateSigningRequestBuilder(self._subject_name, self._extensions),
                   [heap EXCEPT ![self._extensions] = Append(@, ext)], <<>>)

CertificateSigningRequestBuilder_add_extension(self, extension, critical, heap) ==
    IF ~isinstance(extension, ExtensionType)
    THEN Raise(TypeError("extension must be an ExtensionType"), heap)
    ELSE IF Extension_init(extension.oid, critical, extension) # NoException
    THEN Raise(Extension_init(extension.oid, critical, extension), heap)
    ELSE IF HasOid(heap[self._extensions], extension.oid)
    THEN Raise(ValueError("This extension has already been set."), heap)
    ELSE LET new == NewAddr(heap)
             ext == Extension(extension.oid, critical, extension)
         IN Return(CertificateSigningRequestBuilder(self._subject_name, new),
                   Alloc(heap, new, Append(heap[self._extensions], ext)), <<>>)

\* the key and the algorithm passed to the backend in each other's place
CertificateSigningRequestBuilder_sign_swapped(self, private_key, algorithm, backend, heap) ==
    IF self._subject_name = None
    THEN Raise(ValueError("A CertificateSigningRequest must have a subject"), heap)
    ELSE [exc |-> backend.exc, value |-> backend.value, heap |-> heap,
          calls |-> <<[method |-> "create_x509_csr", builder |-> self,
                       private_key |-> algorithm, algorithm |-> private_key]>>]

\* backend is the backend object: what its create_x509_csr does when called
CertificateSigningRequestBuilder_sign(self, private_key, algorithm, backend, heap) ==
    IF self._subject_name = None
    THEN Raise(ValueError("A CertificateSigningRequest must have a subject"), heap)
    ELSE [exc |-> backend.exc, value |-> backend.value, heap |-> heap,
          calls |-> <<[method |-> "create_x509_csr", builder |-> self,
                       private_key |-> private_key, algorithm |-> algorithm]>>]

----------------------------------------------------------------------------
(* CertificateBuilder *)

\* __init__(self, issuer_name=None, subject_name=None, public_key=None,
\*          serial_number=None, not_valid_before=None, not_valid_after=None,
\*          extensions=[])
CertificateBuilder(issuer_name, subject_name, public_key, serial_number, not_valid_before, not_valid_after, extensions) ==
    [type |-> "CertificateBuilder",
     _version |-> "v3",
     _issuer_name |-> issuer_name,
     _subject_name |-> subject_name,
     _public_key |-> public_key,
     _serial_number |-> serial_number,
     _not_valid_before |-> not_valid_before,
     _not_valid_after |-> not_valid_after,
     _extensions |-> extensions]

PublicKeyTypes == {"DSAPublicKey", "RSAPublicKey", "EllipticCurvePublicKey"}

\* the RFC 5280 limit on the serial number's bit length
MaxSerialBits == 160

CertificateBuilder_issuer_name(self, name, heap) ==
    IF ~isinstance(name, {"Name"})
    THEN Raise(TypeError("Expecting x509.Name object."), heap)
    ELSE IF self._issuer_name # None
    THEN Raise(ValueError("The issuer name may only be set once."), heap)
    ELSE Return(CertificateBuilder(
                    name, self._subject_name, self._public_key,
                    self._serial_number, self._not_valid_before,
                    self._not_valid_after, self._extensions), heap, <<>>)

\* the body of issuer_name pasted with only the check changed: the name goes
\* to the issuer's place
CertificateBuilder_subject_name_pasted(self, name, heap) ==
    IF ~isinstance(name, {"Name"})
    THEN Raise(TypeError("Expecting x509.Name object."), heap)
    ELSE IF self._subject_name # None
    THEN Raise(ValueError("The subject name may only be set once."), heap)
    ELSE Return(CertificateBuilder(
                    name, self._subject_name, self._public_key,
                    self._serial_number, self._not_valid_before,
                    self._not_valid_after, self._extensions), heap, <<>>)

CertificateBuilder_subject_name(self, name, heap) ==
    IF ~isinstance(name, {"Name"})
    THEN Raise(TypeError("Expecting x509.Name object."), heap)
    ELSE IF self._subject_name # None
    THEN Raise(ValueError("The subject name may only be set once."), heap)
    ELSE Return(CertificateBuilder(
                    self._issuer_name, name, self._public_key,
                    self._serial_number, self._not_valid_before,
                    self._not_valid_after, self._extensions), heap, <<>>)

CertificateBuilder_public_key(self, key, heap) ==
    IF ~isinstance(key, PublicKeyTypes)
    THEN Raise(TypeError("Expecting one of DSAPublicKey, RSAPublicKey, or EllipticCurvePublicKey."), heap)
    ELSE IF self._public_key # None
    THEN Raise(ValueError("The public key may only be set once."), heap)
    ELSE Return(CertificateBuilder(
                    self._issuer_name, self._subject_name, key,
                    self._serial_number, self._not_valid_before,
                    self._not_valid_after, self._extensions), heap, <<>>)

\* "if self._serial_number:" for "is not None": a stored 0 passes for unset
CertificateBuilder_serial_number_truthy(self, number, heap) ==
    IF ~isinstance(number, {"int"})
    THEN Raise(TypeError("Serial number must be of integral type."), heap)
    ELSE IF self._serial_number # None /\ self._serial_number # Zero
    THEN Raise(ValueError("The serial number may only be set once."), heap)
    ELSE IF IsNegative(number)
    THEN Raise(ValueError("The serial number should be non-negative."), heap)
    ELSE IF bit_length(number) > MaxSerialBits
    THEN Raise(ValueError("The serial number should not be more than 160 bits."), heap)
    ELSE Return(CertificateBuilder(
                    self._issuer_name, self._subject_name,
                    self._public_key, number, self._not_valid_before,
                    self._not_valid_after, self._extensions), heap, <<>>)

\* ">= 160" for "> 160": a serial number of exactly 160 bits is refused
CertificateBuilder_serial_number_off_by_one(self, number, heap) ==
    IF ~isinstance(number, {"int"})
    THEN Raise(TypeError("Serial number must be of integral type."), heap)
    ELSE IF self._serial_number # None
    THEN Raise(ValueError("The serial number may only be set once."), heap)
    ELSE IF IsNegative(number)
    THEN Raise(ValueError("The serial number should be non-negative."), heap)
    ELSE IF bit_length(number) >= MaxSerialBits
    THEN Raise(ValueError("The serial number should not be more than 160 bits."), heap)
    ELSE Return(CertificateBuilder(
                    self._issuer_name, self._subject_name,
                    self._public_key, number, self._not_valid_before,
                    self._not_valid_after, self._extensions), heap, <<>>)

CertificateBuilder_serial_number(self, number, heap) ==
    IF ~isinstance(number, {"int"})
    THEN Raise(TypeError("Serial number must be of integral type."), heap)
    ELSE IF self._serial_number # None
    THEN Raise(ValueError("The serial number may only be set once."), heap)
    ELSE IF IsNegative(number)
    THEN Raise(ValueError("The serial number should be non-negative."), heap)
    ELSE IF bit_length(number) > MaxSerialBits
    THEN Raise(ValueError("The serial number should not be more than 160 bits."), heap)
    ELSE Return(CertificateBuilder(
                    self._issuer_name, self._subject_name,
                    self._public_key, number, self._not_valid_before,
                    self._not_valid_after, self._extensions), heap, <<>>)

\* "<" for "<=": the epoch itself is accepted
CertificateBuilder_not_valid_before_epoch(self, time, heap) ==
    IF ~isinstance(time, {"datetime"})
    THEN Raise(TypeError("Expecting datetime object."), heap)
    ELSE IF self._not_valid_before # None
    THEN Raise(ValueError("The not valid before may only be set once."), heap)
    ELSE IF time.seconds < _UNIX_EPOCH.seconds
    THEN Raise(ValueError("The not valid before date must be after the unix epoch (1970 January 1)."), heap)
    ELSE Return(CertificateBuilder(
                    self._issuer_name, self._subject_name,
                    self._public_key, self._serial_number, time,
                    self._not_valid_after, self._extensions), heap, <<>>)

\* with a check against the expiration time, when that is already set
CertificateBuilder_not_valid_before_ordered(self, time, heap) ==
    IF ~isinstance(time, {"datetime"})
    THEN Raise(TypeError("Expecting datetime object."), heap)
    ELSE IF self._not_valid_before # None
    THEN Raise(ValueError("The not valid before may only be set once."), heap)
    ELSE IF time.seconds <= _UNIX_EPOCH.seconds
    THEN Raise(ValueError("The not valid before date must be after the unix epoch (1970 January 1)."), heap)
    ELSE IF self._not_valid_after # None /\ time.seconds > self._not_valid_after.seconds
    THEN Raise(ValueError("The not valid before date must be before the not valid after date."), heap)
    ELSE Return(CertificateBuilder(
                    self._issuer_name, self._subject_name,
                    self._public_key, self._serial_number, time,
                    self._not_valid_after, self._extensions), heap, <<>>)

CertificateBuilder_not_valid_before(self, time, heap) ==
    IF ~isinstance(time, {"datetime"})
    THEN Raise(TypeError("Expecting datetime object."), heap)
    ELSE IF self._not_valid_before # None
    THEN Raise(ValueError("The not valid before may only be set once."), heap)
    ELSE IF time.seconds <= _UNIX_EPOCH.seconds
    THEN Raise(ValueError("The not valid before date must be after the unix epoch (1970 January 1)."), heap)
    ELSE Return(CertificateBuilder(
                    self._issuer_name, self._subject_name,
                    self._public_key, self._serial_number, time,
                    self._not_valid_after, self._extensions), heap, <<>>)

\* with a check of the order of the two times added
CertificateBuilder_not_valid_after_ordered(self, time, heap) ==
    IF ~isinstance(time, {"datetime"})
    THEN Raise(TypeError("Expecting datetime object."), heap)
    ELSE IF self._not_valid_after # None
    THEN Raise(ValueError("The not valid after may only be set once."), heap)
    ELSE IF time.seconds <= _UNIX_EPOCH.seconds
    THEN Raise(ValueError("The not valid after date must be after the unix epoch (1970 January 1)."), heap)
    ELSE IF self._not_valid_before # None /\ time.seconds < self._not_valid_before.seconds
    THEN Raise(ValueError("The not valid after date must be after the not valid before date."), heap)
    ELSE Return(CertificateBuilder(
                    self._issuer_name, self._subject_name,
                    self._public_key, self._serial_number, self._not_valid_before,
                    time, self._extensions), heap, <<>>)

CertificateBuilder_not_valid_after(self, time, heap) ==
    IF ~isinstance(time, {"datetime"})
    THEN Raise(TypeError("Expecting datetime object."), heap)
    ELSE IF self._not_valid_after # None
    THEN Raise(ValueError("The not valid after may only be set once."), heap)
    ELSE IF time.seconds <= _UNIX_EPOCH.seconds
    THEN Raise(ValueError("The not valid after date must be after the unix epoch (1970 January 1)."), heap)
    ELSE Return(CertificateBuilder(
                    self._issuer_name, self._subject_name,
                    self._public_key, self._serial_number, self._not_valid_before,
                    time, self._extensions), heap, <<>>)

\* the loop comparing oid and critical: the same extension type passes again
\* with the other critical flag
CertificateBuilder_add_extension_by_critical(self, extension, critical, heap) ==
    IF ~isinstance(extension, ExtensionType)
    THEN Raise(TypeError("extension must be an ExtensionType"), heap)
    ELSE IF Extension_init(extension.oid, critical, extension) # NoException
    THEN Raise(Extension_init(extension.oid, critical, extension), heap)
    ELSE IF \E i \in 1..Len(heap[self._extensions]) :
                /\ heap[self._extensions][i].oid = extension.oid
                /\ heap[self._extensions][i].critical = critical
    THEN Raise(ValueError("This extension has already been set."), heap)
    ELSE LET new == NewAddr(heap)
             ext == Extension(extension.oid, critical, extension)
         IN Return(CertificateBuilder(
                       self._issuer_name, self._subject_name,
                       self._public_key, self._serial_number, self._not_valid_before,
                       self._not_valid_after, new),
                   Alloc(heap, new, Append(heap[self._extensions], ext)), <<>>)

\* "self._extensions.append(extension)" for "self._extensions + [extension]":
\* the receiver's list object is extended and handed on
CertificateBuilder_add_extension_in_place(self, extension, critical, heap) ==
    IF ~isinstance(extension, ExtensionType)
    THEN Raise(TypeError("extension must be an ExtensionType"), heap)
    ELSE IF Extension_init(extension.oid, critical, extension) # NoException
    THEN Raise(Extension_init(extension.oid, critical, extension), heap)
    ELSE IF HasOid(heap[self._extensions], extension.oid)
    THEN Raise(ValueError("This extension has already been set."), heap)
    ELSE LET ext == Extension(extension.oid, critical, extension)
         IN Return(CertificateBuilder(
                       self._issuer_name, self._subject_name,
                       self._public_key, self._serial_number, self._not_valid_before,
                       self._not_valid_after, self._extensions),
                   [heap EXCEPT ![self._extensions] = Append(@, ext)], <<>>)

\* "[extension] + self._extensions" for "self._extensions + [extension]":
\* the new extension goes first
CertificateBuilder_add_extension_prepend(self, extension, critical, heap) ==
    IF ~isinstance(extension, ExtensionType)
    THEN Raise(TypeError("extension must be an ExtensionType"), heap)
    ELSE IF Extension_init(extension.oid, critical, extension) # NoException
    THEN Raise(Extension_init(extension.oid, critical, extension), heap)
    ELSE IF HasOid(heap[self._extensions], extension.oid)
    THEN Raise(ValueError("This extension has already been set."), heap)
    ELSE LET new == NewAddr(heap)
             ext == Extension(extension.oid, critical, extension)
         IN Return(CertificateBuilder(
                       self._issuer_name, self._subject_name,
                       self._public_key, self._serial_number, self._not_valid_before,
                       self._not_valid_after, new),
                   Alloc(heap, new, <<ext>> \o heap[self._extensions]), <<>>)

CertificateBuilder_add_extension(self, extension, critical, heap) ==
    IF ~isinstance(extension, ExtensionType)
    THEN Raise(TypeError("extension must be an ExtensionType"), heap)
    ELSE IF Extension_init(extension.oid, critical, extension) # NoException
    THEN Raise(Extension_init(extension.oid, critical, extension), heap)
    ELSE IF HasOid(heap[self._extensions], extension.oid)
    THEN Raise(ValueError("This extension has already been set."), heap)
    ELSE LET new == NewAddr(heap)
             ext == Extension(extension.oid, critical, extension)
         IN Return(CertificateBuilder(
                       self._issuer_name, self._subject_name,
                       self._public_key, self._serial_number, self._not_valid_before,
                       self._not_valid_after, new),
                   Alloc(heap, new, Append(heap[self._extensions], ext)), <<>>)

\* without the last check: a builder with no public key reaches the backend
CertificateBuilder_sign_unchecked_key(self, private_key, algorithm, backend, heap) ==
    IF self._subject_name = None
    THEN Raise(ValueError("A certificate must have a subject name"), heap)
    ELSE IF self._issuer_name = None
    THEN Raise(ValueError("A certificate must have an issuer name"), heap)
    ELSE IF self._serial_number = None
    THEN Raise(ValueError("A certificate must have a serial number"), heap)
    ELSE IF self._not_valid_before = None
    THEN Raise(ValueError("A certificate must have a not valid before time"), heap)
    ELSE IF self._not_valid_after = None
    THEN Raise(ValueError("A certificate must have a not valid after time"), heap)
    ELSE [exc |-> backend.exc, value |-> backend.value, heap |-> heap,
          calls |-> <<[method |-> "create_x509_certificate", builder |-> self,
                       private_key |-> private_key, algorithm |-> algorithm]>>]

\* sign emptying the receiver's list object once the backend has been called
CertificateBuilder_sign_consuming(self, private_key, algorithm, backend, heap) ==
    IF self._subject_name = None
    THEN Raise(ValueError("A certificate must have a subject name"), heap)
    ELSE IF self._issuer_name = None
    THEN Raise(ValueError("A certificate must have an issuer name"), heap)
    ELSE IF self._serial_number = None
    THEN Raise(ValueError("A certificate must have a serial number"), heap)
    ELSE IF self._not_valid_before = None
    THEN Raise(ValueError("A certificate must have a not valid before time"), heap)
    ELSE IF self._not_valid_after = None
    THEN Raise(ValueError("A certificate must have a not valid after time"), heap)
    ELSE IF self._public_key = None
    THEN Raise(ValueError("A certificate must have a public key"), heap)
    ELSE [exc |-> backend.exc, value |-> backend.value,
          heap |-> [heap EXCEPT ![self._extensions] = <<>>],
          calls |-> <<[method |-> "create_x509_certificate", builder |-> self,
                       private_key |-> private_key, algorithm |-> algorithm]>>]

\* backend is the backend object: what its create_x509_certificate does when
\* called
CertificateBuilder_sign(self, private_key, algorithm, backend, heap) ==
    IF self._subject_name = None
    THEN Raise(ValueError("A certificate must have a subject name"), heap)
    ELSE IF self._issuer_name = None
    THEN Raise(ValueError("A certificate must have an issuer name"), heap)
    ELSE IF self._serial_number = None
    THEN Raise(ValueError("A certificate must have a serial number"), heap)
    ELSE IF self._not_valid_before = None
    THEN Raise(ValueError("A certificate must have a not valid before time"), heap)
    ELSE IF self._not_valid_after = None
    THEN Raise(ValueError("A certificate must have a not valid after time"), heap)
    ELSE IF self._public_key = None
    THEN Raise(ValueError("A certificate must have a public key"), heap)
    ELSE [exc |-> backend.exc, value |-> backend.value, heap |-> heap,
          calls |-> <<[method |-> "create_x509_certificate", builder |-> self,
                       private_key |-> private_key, algorithm |-> algorithm]>>]

----------------------------------------------------------------------------
(* The callers and the values they pass *)

Names == {Name("CN=a"), Name("CN=b")}
NameArgs == Names \cup {Str("CN=a")}

PublicKeys == {PublicKey("RSAPublicKey", "k1"), PublicKey("EllipticCurvePublicKey", "k2")}
PublicKeyArgs == PublicKeys \cup {PublicKey("RSAPrivateKey", "k1")}

SerialNumberArgs ==
    {MinusOne, Zero, Pow2(MaxSerialBits - 1), Pow2Minus1(MaxSerialBits),
     Pow2(MaxSerialBits), Pow2(MaxSerialBits + 1), Str("1")}

TimeArgs == {Datetime(0 - 1), Datetime(0), Datetime(1), Datetime(2), Str("1970-01-02")}

ExtensionArgs ==
    {OCSPNoCheck, BasicConstraints(PyBool(FALSE), None), BasicConstraints(PyBool(TRUE), Zero), PyObject}
CriticalArgs == {PyBool(TRUE), PyBool(FALSE), None}

PrivateKeys == {[type |-> "RSAPrivateKey", id |-> "k1"]}
Algorithms == {[type |-> "SHA256"]}

\* a backend object: its create_x509_* method returns an artifact or raises
Backends ==
    {[exc |-> NoException, value |-> [type |-> "backend artifact"]],
     [exc |-> [class |-> "backend error"], value |-> None]}

\* a builder with the list object it refers to replaced by that list's items
Deep(b, heap) == [b EXCEPT !._extensions = heap[b._extensions]]

\* the list objects the callers' builders, the base and the receiver of the
\* last call refer to
Live(bs) == {b._extensions : b \in bs}

\* Caller c calls a method on the builder it holds, run is the call as run on
\* the shared heap and alone the same call as run in c's world alone.  A
\* caller holds on to the builder a setter returns (b = b.setter(x)); the
\* receiver stays referenced until the caller's next call.
Call(c, method, args, run, alone, keep) ==
    LET held2 == IF keep /\ run.exc = NoException
                 THEN [held EXCEPT ![c] = run.value] ELSE held
        solob == IF keep /\ alone.exc = NoException
                 THEN alone.value ELSE solo[c].builder
    IN /\ held' = held2
       /\ lists' = Collect(run.heap,
                           Live({base, held[c]} \cup {held2[d] : d \in DOMAIN held}))
       /\ solo' = [solo EXCEPT ![c] =
                      [builder |-> solob,
                       heap |-> Collect(alone.heap,
                                        Live({base, solo[c].builder, solob})),
                       exc |-> alone.exc]]
       /\ last' = [caller |-> c, method |-> method, args |-> args,
                   receiver |-> held[c], before |-> Deep(held[c], lists),
                   exc |-> run.exc, value |-> run.value, calls |-> run.calls]
       /\ UNCHANGED <<base, container>>

\* Caller c constructs a builder with no arguments and holds it.
Construct(c, method, b) ==
    /\ held' = [held EXCEPT ![c] = b]
    /\ lists' = Collect(lists, Live({base, b} \cup {held[d] : d \in DOMAIN held \ {c}}))
    /\ solo' = [solo EXCEPT ![c] =
                   [builder |-> b,
                    heap |-> Collect(solo[c].heap, Live({base, b})),
                    exc |-> NoException]]
    /\ last' = [caller |-> c, method |-> method, args |-> <<>>,
                receiver |-> b, before |-> Deep(b, lists),
                exc |-> NoException, value |-> None, calls |-> <<>>]
    /\ UNCHANGED <<base, container>>

New_CertificateSigningRequestBuilder(c) ==
    /\ c \in DOMAIN held
    /\ Construct(c, "CertificateSigningRequestBuilder.__init__",
              CertificateSigningRequestBuilder(None, DefaultCSRExtensions))

New_CertificateBuilder(c) ==
    /\ c \in DOMAIN held
    /\ Construct(c, "CertificateBuilder.__init__",
              CertificateBuilder(None, None, None, None, None, None,
                                 DefaultCertExtensions))

IsCSRB(c) == held[c].type = "CertificateSigningRequestBuilder"
IsCB(c) == held[c].type = "CertificateBuilder"

Call_CertificateSigningRequestBuilder_subject_name(c, name) ==
    /\ IsCSRB(c)
    /\ Call(c, "subject_name", <<name>>,
            CertificateSigningRequestBuilder_subject_name(held[c], name, lists),
            CertificateSigningRequestBuilder_subject_name(solo[c].builder, name, solo[c].heap),
            TRUE)

Call_CertificateSigningRequestBuilder_add_extension(c, extension, critical) ==
    /\ IsCSRB(c)
    /\ Call(c, "add_extension", <<extension, critical>>,
            CertificateSigningRequestBuilder_add_extension(held[c], extension, critical, lists),
            CertificateSigningRequestBuilder_add_extension(solo[c].builder, extension, critical, solo[c].heap),
            TRUE)

Call_CertificateSigningRequestBuilder_sign(c, private_key, algorithm, backend) ==
    /\ IsCSRB(c)
    /\ Call(c, "sign", <<private_key, algorithm, backend>>,
            CertificateSigningRequestBuilder_sign(held[c], private_key, algorithm, backend, lists),
            CertificateSigningRequestBuilder_sign(solo[c].builder, private_key, algorithm, backend, solo[c].heap),
            FALSE)

Call_CertificateBuilder_issuer_name(c, name) ==
    /\ IsCB(c)
    /\ Call(c, "issuer_name", <<name>>,
            CertificateBuilder_issuer_name(held[c], name, lists),
            CertificateBuilder_issuer_name(solo[c].builder, name, solo[c].heap),
            TRUE)

Call_CertificateBuilder_subject_name(c, name) ==
    /\ IsCB(c)
    /\ Call(c, "subject_name", <<name>>,
            CertificateBuilder_subject_name(held[c], name, lists),
            CertificateBuilder_subject_name(solo[c].builder, name, solo[c].heap),
            TRUE)

Call_CertificateBuilder_public_key(c, key) ==
    /\ IsCB(c)
    /\ Call(c, "public_key", <<key>>,
            CertificateBuilder_public_key(held[c], key, lists),
            CertificateBuilder_public_key(solo[c].builder, key, solo[c].heap),
            TRUE)

Call_CertificateBuilder_serial_number(c, number) ==
    /\ IsCB(c)
    /\ Call(c, "serial_number", <<number>>,
            CertificateBuilder_serial_number(held[c], number, lists),
            CertificateBuilder_serial_number(solo[c].builder, number, solo[c].heap),
            TRUE)

Call_CertificateBuilder_not_valid_before(c, time) ==
    /\ IsCB(c)
    /\ Call(c, "not_valid_before", <<time>>,
            CertificateBuilder_not_valid_before(held[c], time, lists),
            CertificateBuilder_not_valid_before(solo[c].builder, time, solo[c].heap),
            TRUE)

Call_CertificateBuilder_not_valid_after(c, time) ==
    /\ IsCB(c)
    /\ Call(c, "not_valid_after", <<time>>,
            CertificateBuilder_not_valid_after(held[c], time, lists),
            CertificateBuilder_not_valid_after(solo[c].builder, time, solo[c].heap),
            TRUE)

Call_CertificateBuilder_add_extension(c, extension, critical) ==
    /\ IsCB(c)
    /\ Call(c, "add_extension", <<extension, critical>>,
            CertificateBuilder_add_extension(held[c], extension, critical, lists),
            CertificateBuilder_add_extension(solo[c].builder, extension, critical, solo[c].heap),
            TRUE)

Call_CertificateBuilder_sign(c, private_key, algorithm, backend) ==
    /\ IsCB(c)
    /\ Call(c, "sign", <<private_key, algorithm, backend>>,
            CertificateBuilder_sign(held[c], private_key, algorithm, backend, lists),
            CertificateBuilder_sign(solo[c].builder, private_key, algorithm, backend, solo[c].heap),
            FALSE)

----------------------------------------------------------------------------
(* One caller building certificates and requests *)

\* the list heap once the module is imported: the two default lists, empty
ImportedLists == [a \in DefaultLists |-> <<>>]

EmptyCertificateBuilder ==
    CertificateBuilder(None, None, None, None, None, None, DefaultCertExtensions)

\* the one caller of Spec, SpecValidity and SpecExtensions
Callers == {"a"}

InitCall(b, heap) ==
    [caller |-> "a", method |-> "CertificateBuilder.__init__", args |-> <<>>,
     receiver |-> b, before |-> Deep(b, heap),
     exc |-> NoException, value |-> None, calls |-> <<>>]

Init ==
    /\ lists = ImportedLists
    /\ base = EmptyCertificateBuilder
    /\ held = [c \in Callers |-> base]
    /\ solo = [c \in Callers |-> [builder |-> base, heap |-> lists, exc |-> NoException]]
    /\ container = None
    /\ last = InitCall(base, lists)

\* Spec: every field takes two values, so that a second call of a setter may
\* pass the stored value or another one.
FieldArgs ==
    [names |-> NameArgs, keys |-> PublicKeyArgs,
     serials |-> {Zero, Pow2(MaxSerialBits - 1), Str("1")},
     times |-> {Datetime(1), Datetime(2), Str("1970-01-02")},
     extensions |-> {OCSPNoCheck}, criticals |-> {PyBool(TRUE)}]

Next ==
    \E c \in Callers :
        \/ New_CertificateSigningRequestBuilder(c)
        \/ New_CertificateBuilder(c)
        \/ \E name \in FieldArgs.names :
               Call_CertificateSigningRequestBuilder_subject_name(c, name)
        \/ \E extension \in FieldArgs.extensions, critical \in FieldArgs.criticals :
               Call_CertificateSigningRequestBuilder_add_extension(c, extension, critical)
        \/ \E private_key \in PrivateKeys, algorithm \in Algorithms, backend \in Backends :
               Call_CertificateSigningRequestBuilder_sign(c, private_key, algorithm, backend)
        \/ \E name \in FieldArgs.names : Call_CertificateBuilder_issuer_name(c, name)
        \/ \E name \in FieldArgs.names : Call_CertificateBuilder_subject_name(c, name)
        \/ \E key \in FieldArgs.keys : Call_CertificateBuilder_public_key(c, key)
        \/ \E number \in FieldArgs.serials : Call_CertificateBuilder_serial_number(c, number)
        \/ \E time \in FieldArgs.times : Call_CertificateBuilder_not_valid_before(c, time)
        \/ \E time \in FieldArgs.times : Call_CertificateBuilder_not_valid_after(c, time)
        \/ \E extension \in FieldArgs.extensions, critical \in FieldArgs.criticals :
               Call_CertificateBuilder_add_extension(c, extension, critical)
        \/ \E private_key \in PrivateKeys, algorithm \in Algorithms, backend \in Backends :
               Call_CertificateBuilder_sign(c, private_key, algorithm, backend)

Spec == Init /\ [][Next]_vars

\* SpecValidity: the serial numbers and the times around the limits.
ValidityArgs ==
    [names |-> {Name("CN=a")}, keys |-> {PublicKey("RSAPublicKey", "k1")},
     serials |-> SerialNumberArgs, times |-> TimeArgs,
     extensions |-> {OCSPNoCheck}, criticals |-> {PyBool(TRUE)}]

NextValidity ==
    \E c \in Callers :
        \/ New_CertificateSigningRequestBuilder(c)
        \/ New_CertificateBuilder(c)
        \/ \E name \in ValidityArgs.names :
               Call_CertificateSigningRequestBuilder_subject_name(c, name)
        \/ \E extension \in ValidityArgs.extensions, critical \in ValidityArgs.criticals :
               Call_CertificateSigningRequestBuilder_add_extension(c, extension, critical)
        \/ \E private_key \in PrivateKeys, algorithm \in Algorithms, backend \in Backends :
               Call_CertificateSigningRequestBuilder_sign(c, private_key, algorithm, backend)
        \/ \E name \in ValidityArgs.names : Call_CertificateBuilder_issuer_name(c, name)
        \/ \E name \in ValidityArgs.names : Call_CertificateBuilder_subject_name(c, name)
        \/ \E key \in ValidityArgs.keys : Call_CertificateBuilder_public_key(c, key)
        \/ \E number \in ValidityArgs.serials : Call_CertificateBuilder_serial_number(c, number)
        \/ \E time \in ValidityArgs.times : Call_CertificateBuilder_not_valid_before(c, time)
        \/ \E time \in ValidityArgs.times : Call_CertificateBuilder_not_valid_after(c, time)
        \/ \E extension \in ValidityArgs.extensions, critical \in ValidityArgs.criticals :
               Call_CertificateBuilder_add_extension(c, extension, critical)
        \/ \E private_key \in PrivateKeys, algorithm \in Algorithms, backend \in Backends :
               Call_CertificateBuilder_sign(c, private_key, algorithm, backend)

SpecValidity == Init /\ [][NextValidity]_vars

\* SpecExtensions: the extensions, with one value for each other field.
ExtensionsArgs ==
    [names |-> {Name("CN=a")}, keys |-> {PublicKey("RSAPublicKey", "k1")},
     serials |-> {Zero}, times |-> {Datetime(1)},
     extensions |-> ExtensionArgs, criticals |-> CriticalArgs]

NextExtensions ==
    \E c \in Callers :
        \/ New_CertificateSigningRequestBuilder(c)
        \/ New_CertificateBuilder(c)
        \/ \E name \in ExtensionsArgs.names :
               Call_CertificateSigningRequestBuilder_subject_name(c, name)
        \/ \E extension \in ExtensionsArgs.extensions, critical \in ExtensionsArgs.criticals :
               Call_CertificateSigningRequestBuilder_add_extension(c, extension, critical)
        \/ \E private_key \in PrivateKeys, algorithm \in Algorithms, backend \in Backends :
               Call_CertificateSigningRequestBuilder_sign(c, private_key, algorithm, backend)
        \/ \E name \in ExtensionsArgs.names : Call_CertificateBuilder_issuer_name(c, name)
        \/ \E name \in ExtensionsArgs.names : Call_CertificateBuilder_subject_name(c, name)
        \/ \E key \in ExtensionsArgs.keys : Call_CertificateBuilder_public_key(c, key)
        \/ \E number \in ExtensionsArgs.serials : Call_CertificateBuilder_serial_number(c, number)
        \/ \E time \in ExtensionsArgs.times : Call_CertificateBuilder_not_valid_before(c, time)
        \/ \E time \in ExtensionsArgs.times : Call_CertificateBuilder_not_valid_after(c, time)
        \/ \E extension \in ExtensionsArgs.extensions, critical \in ExtensionsArgs.criticals :
               Call_CertificateBuilder_add_extension(c, extension, critical)
        \/ \E private_key \in PrivateKeys, algorithm \in Algorithms, backend \in Backends :
               Call_CertificateBuilder_sign(c, private_key, algorithm, backend)

SpecExtensions == Init /\ [][NextExtensions]_vars

----------------------------------------------------------------------------
(* Two callers deriving builders from one base *)

SharedCallers == {"a", "b"}

\* CertificateBuilder().issuer_name(Name("CN=a")).add_extension(OCSPNoCheck(), False)
ConfiguredStart ==
    LET r1 == CertificateBuilder_issuer_name(EmptyCertificateBuilder, Name("CN=a"),
                                             ImportedLists)
        r2 == CertificateBuilder_add_extension(r1.value, OCSPNoCheck, PyBool(FALSE),
                                               r1.heap)
    IN [builder |-> r2.value, heap |-> Collect(r2.heap, Live({r2.value}))]

\* the bases: the empty builder, which refers to the default list, and a
\* builder with a list of its own
SharedStarts ==
    {[builder |-> EmptyCertificateBuilder, heap |-> ImportedLists], ConfiguredStart}

InitShared ==
    \E s \in SharedStarts :
        /\ lists = s.heap
        /\ base = s.builder
        /\ held = [c \in SharedCallers |-> base]
        /\ solo = [c \in SharedCallers |->
                      [builder |-> base, heap |-> lists, exc |-> NoException]]
        /\ container = None
        /\ last = InitCall(base, lists)

\* Caller c starts again from the base.
Restart(c) ==
    /\ held[c] # base
    /\ Construct(c, "restart", base)

SharedArgs ==
    [names |-> {Name("CN=b")},
     serials |-> {Zero, Pow2(MaxSerialBits - 1)},
     extensions |-> {BasicConstraints(PyBool(FALSE), None)},
     criticals |-> {PyBool(TRUE)}]

NextShared ==
    \E c \in SharedCallers :
        \/ Restart(c)
        \/ \E name \in SharedArgs.names : Call_CertificateBuilder_subject_name(c, name)
        \/ \E number \in SharedArgs.serials : Call_CertificateBuilder_serial_number(c, number)
        \/ \E extension \in SharedArgs.extensions, critical \in SharedArgs.criticals :
               Call_CertificateBuilder_add_extension(c, extension, critical)

SpecShared == InitShared /\ [][NextShared]_vars

----------------------------------------------------------------------------
(* Lookups in an Extensions container *)

\* the longest list an Extensions object wraps
MaxLen == 3

ContainerItems ==
    {Extension("BASIC_CONSTRAINTS", PyBool(TRUE), BasicConstraints(PyBool(FALSE), None)),
     Extension("BASIC_CONSTRAINTS", PyBool(FALSE), BasicConstraints(PyBool(TRUE), Zero)),
     Extension("OCSP_NO_CHECK", PyBool(FALSE), OCSPNoCheck)}

SeqsUpTo(S, n) == UNION {[1..k -> S] : k \in 0..n}

\* Extensions(seq), for any list seq a caller or the backend builds
InitLookup ==
    \E seq \in SeqsUpTo(ContainerItems, MaxLen) :
        LET a == NewAddr(ImportedLists)
        IN /\ lists = Alloc(ImportedLists, a, seq)
           /\ container = Extensions(a)
           /\ base = EmptyCertificateBuilder
           /\ held = [c \in Callers |-> base]
           /\ solo = [c \in Callers |->
                         [builder |-> base, heap |-> ImportedLists, exc |-> NoException]]
           /\ last = [caller |-> "a", method |-> "Extensions.__init__", args |-> <<a>>,
                      receiver |-> container, before |-> Deep(container, lists),
                      exc |-> NoException, value |-> None, calls |-> <<>>]

Call_Extensions_get_extension_for_oid(c, oid) ==
    LET run == Extensions_get_extension_for_oid(container, oid, lists)
    IN /\ container # None
       /\ lists' = run.heap
       /\ last' = [caller |-> c, method |-> "get_extension_for_oid", args |-> <<oid>>,
                   receiver |-> container, before |-> Deep(container, lists),
                   exc |-> run.exc, value |-> run.value, calls |-> run.calls]
       /\ UNCHANGED <<base, held, solo, container>>

NextLookup ==
    \E c \in Callers, oid \in ObjectIdentifier :
        Call_Extensions_get_extension_for_oid(c, oid)

SpecLookup == InitLookup /\ [][NextLookup]_vars

----------------------------------------------------------------------------
(* More Python values: lists, frozensets, truth *)

\* a list and a frozenset, given by their items (the constructors below read
\* their arguments and never change them)
PyList(items) == [type |-> "list", items |-> items]
PyFrozenset(items) == [type |-> "frozenset", items |-> items]

Three == PyInt(FALSE, <<1, 1>>)

\* bool(x), as "if x", "not x", "x and y", "x or y" test it: None, False, 0
\* and the empty containers are false
Truthy(x) ==
    CASE x.type = "NoneType" -> FALSE
      [] x.type = "bool" -> x.value
      [] x.type = "int" -> x.bits # <<>>
      [] x.type = "list" -> x.items # <<>>
      [] x.type = "frozenset" -> x.items # {}
      [] x.type = "str" -> x.value # ""
      [] OTHER -> TRUE

\* six.integer_types: bool is a subclass of int
integer_types == {"int", "bool"}

\* x < 0, for an instance of integer_types
LessThanZero(x) == x.type = "int" /\ x.neg

\* utils.read_only_property(name): the property that returns getattr(self, name)
read_only_property(self, name) == Return(self[name], ImportedLists, <<>>)

----------------------------------------------------------------------------
(* GeneralName *)

\* ipaddress.IPv4Address(s) and ipaddress.IPv4Network(s)
IPv4Address(s) == [type |-> "IPv4Address", value |-> s]
IPv4Network(s) == [type |-> "IPv4Network", value |-> s]

IPNetworkTypes == {"IPv4Network", "IPv6Network"}
IPAddressValueTypes == {"IPv4Address", "IPv6Address"} \cup IPNetworkTypes

\* the objects DNSName.__init__ and IPAddress.__init__ leave
DNSName(value) == [type |-> "DNSName", value |-> value]
IPAddress(value) == [type |-> "IPAddress", value |-> value]

\* IPAddress.__init__: the exception it raises
IPAddress_init(value) ==
    IF ~isinstance(value, IPAddressValueTypes)
    THEN TypeError("value must be an instance of ipaddress.IPv4Address, ipaddress.IPv6Address, ipaddress.IPv4Network, or ipaddress.IPv6Network")
    ELSE NoException

\* the classes registered as GeneralName
GeneralName ==
    {"RFC822Name", "DNSName", "UniformResourceIdentifier", "DirectoryName",
     "RegisteredID", "IPAddress", "OtherName"}

\* all(isinstance(x, classes) for x in l)
AllInstances(l, classes) == \A i \in 1..Len(l.items) : isinstance(l.items[i], classes)

----------------------------------------------------------------------------
(* BasicConstraints.__init__ *)

\* the check "path_length is not None and (not ca or ...)" dropped for a test
\* of the path length alone: a path length on a non-CA is accepted
BasicConstraints_init_any_ca(ca, path_length) ==
    IF ~isinstance(ca, {"bool"})
    THEN TypeError("ca must be a boolean value")
    ELSE IF path_length # None
            /\ (~isinstance(path_length, integer_types) \/ LessThanZero(path_length))
    THEN TypeError("path_length must be a non-negative integer or None")
    ELSE NoException

\* the exception BasicConstraints.__init__ raises, NoException when it returns
BasicConstraints_init(ca, path_length) ==
    IF ~isinstance(ca, {"bool"})
    THEN TypeError("ca must be a boolean value")
    ELSE IF path_length # None /\ ~Truthy(ca)
    THEN ValueError("path_length must be None when ca is False")
    ELSE IF path_length # None
            /\ (~isinstance(path_length, integer_types) \/ LessThanZero(path_length))
    THEN TypeError("path_length must be a non-negative integer or None")
    ELSE NoException

----------------------------------------------------------------------------
(* KeyUsage *)

\* the object KeyUsage.__init__ leaves
KeyUsage(digital_signature, content_commitment, key_encipherment, data_encipherment, key_agreement, key_cert_sign, crl_sign, encipher_only, decipher_only) ==
    [type |-> "KeyUsage", oid |-> "KEY_USAGE",
     _digital_signature |-> digital_signature,
     _content_commitment |-> content_commitment,
     _key_encipherment |-> key_encipherment,
     _data_encipherment |-> data_encipherment,
     _key_agreement |-> key_agreement,
     _key_cert_sign |-> key_cert_sign,
     _crl_sign |-> crl_sign,
     _encipher_only |-> encipher_only,
     _decipher_only |-> decipher_only]

\* the test of __init__ without decipher_only
KeyUsage_init_encipher_alone(digital_signature, content_commitment, key_encipherment, data_encipherment, key_agreement, key_cert_sign, crl_sign, encipher_only, decipher_only) ==
    IF ~Truthy(key_agreement) /\ Truthy(encipher_only)
    THEN ValueError("encipher_only and decipher_only can only be true when key_agreement is true")
    ELSE NoException

\* the exception KeyUsage.__init__ raises
KeyUsage_init(digital_signature, content_commitment, key_encipherment, data_encipherment, key_agreement, key_cert_sign, crl_sign, encipher_only, decipher_only) ==
    IF ~Truthy(key_agreement) /\ (Truthy(encipher_only) \/ Truthy(decipher_only))
    THEN ValueError("encipher_only and decipher_only can only be true when key_agreement is true")
    ELSE NoException

\* the property returning the stored flag whatever key_agreement is
KeyUsage_encipher_only_stored(self) ==
    Return(self._encipher_only, ImportedLists, <<>>)

\* the property encipher_only
KeyUsage_encipher_only(self) ==
    IF ~Truthy(read_only_property(self, "_key_agreement").value)
    THEN Raise(ValueError("encipher_only is undefined unless key_agreement is true"),
               ImportedLists)
    ELSE Return(self._encipher_only, ImportedLists, <<>>)

\* the property decipher_only
KeyUsage_decipher_only(self) ==
    IF ~Truthy(read_only_property(self, "_key_agreement").value)
    THEN Raise(ValueError("decipher_only is undefined unless key_agreement is true"),
               ImportedLists)
    ELSE Return(self._decipher_only, ImportedLists, <<>>)

\* the seven properties made with utils.read_only_property
KeyUsageFlags ==
    {"digital_signature", "content_commitment", "key_encipherment",
     "data_encipherment", "key_agreement", "key_cert_sign", "crl_sign"}

\* the attribute a property made with read_only_property reads
Attribute ==
    [digital_signature |-> "_digital_signature",
     content_commitment |-> "_content_commitment",
     key_encipherment |-> "_key_encipherment",
     data_encipherment |-> "_data_encipherment",
     key_agreement |-> "_key_agreement",
     key_cert_sign |-> "_key_cert_sign",
     crl_sign |-> "_crl_sign",
     ca |-> "_ca", path_length |-> "_path_length"]

----------------------------------------------------------------------------
(* NameConstraints *)

\* the object NameConstraints.__init__ leaves
NameConstraints(permitted_subtrees, excluded_subtrees) ==
    [type |-> "NameConstraints", oid |-> "NAME_CONSTRAINTS",
     _permitted_subtrees |-> permitted_subtrees,
     _excluded_subtrees |-> excluded_subtrees]

\* the test made on the first name of the tree alone
_validate_ip_name_first(tree) ==
    IF \E i \in 1..Len(tree.items) :
           /\ i = 1
           /\ isinstance(tree.items[i], {"IPAddress"})
           /\ ~isinstance(tree.items[i].value, IPNetworkTypes)
    THEN TypeError("IPAddress name constraints must be an IPv4Network or IPv6Network object")
    ELSE NoException

\* NameConstraints._validate_ip_name: the exception it raises
_validate_ip_name(tree) ==
    IF \E i \in 1..Len(tree.items) :
           /\ isinstance(tree.items[i], {"IPAddress"})
           /\ ~isinstance(tree.items[i].value, IPNetworkTypes)
    THEN TypeError("IPAddress name constraints must be an IPv4Network or IPv6Network object")
    ELSE NoException

\* the last test made with "or": one list that is None is refused
NameConstraints_init_both(permitted_subtrees, excluded_subtrees) ==
    IF permitted_subtrees # None /\ ~AllInstances(permitted_subtrees, GeneralName)
    THEN TypeError("permitted_subtrees must be a list of GeneralName objects or None")
    ELSE IF permitted_subtrees # None /\ _validate_ip_name(permitted_subtrees) # NoException
    THEN _validate_ip_name(permitted_subtrees)
    ELSE IF excluded_subtrees # None /\ ~AllInstances(excluded_subtrees, GeneralName)
    THEN TypeError("excluded_subtrees must be a list of GeneralName objects or None")
    ELSE IF excluded_subtrees # None /\ _validate_ip_name(excluded_subtrees) # NoException
    THEN _validate_ip_name(excluded_subtrees)
    ELSE IF permitted_subtrees = None \/ excluded_subtrees = None
    THEN ValueError("At least one of permitted_subtrees and excluded_subtrees must not be None")
    ELSE NoException

\* the exception NameConstraints.__init__ raises
NameConstraints_init(permitted_subtrees, excluded_subtrees) ==
    IF permitted_subtrees # None /\ ~AllInstances(permitted_subtrees, GeneralName)
    THEN TypeError("permitted_subtrees must be a list of GeneralName objects or None")
    ELSE IF permitted_subtrees # None /\ _validate_ip_name(permitted_subtrees) # NoException
    THEN _validate_ip_name(permitted_subtrees)
    ELSE IF excluded_subtrees # None /\ ~AllInstances(excluded_subtrees, GeneralName)
    THEN TypeError("excluded_subtrees must be a list of GeneralName objects or None")
    ELSE IF excluded_subtrees # None /\ _validate_ip_name(excluded_subtrees) # NoException
    THEN _validate_ip_name(excluded_subtrees)
    ELSE IF permitted_subtrees = None /\ excluded_subtrees = None
    THEN ValueError("At least one of permitted_subtrees and excluded_subtrees must not be None")
    ELSE NoException

----------------------------------------------------------------------------
(* DistributionPoint and ReasonFlags *)

\* the members of the enumeration ReasonFlags
ReasonFlags ==
    {"unspecified", "key_compromise", "ca_compromise", "affiliation_changed",
     "superseded", "cessation_of_operation", "certificate_hold",
     "privilege_withdrawn", "aa_compromise", "remove_from_crl"}

\* the object DistributionPoint.__init__ leaves
DistributionPoint(full_name, relative_name, reasons, crl_issuer) ==
    [type |-> "DistributionPoint",
     _full_name |-> full_name, _relative_name |-> relative_name,
     _reasons |-> reasons, _crl_issuer |-> crl_issuer]

\* the exception DistributionPoint.__init__ raises
DistributionPoint_init(full_name, relative_name, reasons, crl_issuer) ==
    IF Truthy(full_name) /\ Truthy(relative_name)
    THEN ValueError("You cannot provide both full_name and relative_name, at least one must be None.")
    ELSE IF Truthy(full_name) /\ ~AllInstances(full_name, GeneralName)
    THEN TypeError("full_name must be a list of GeneralName objects")
    ELSE IF Truthy(relative_name) /\ ~isinstance(relative_name, {"Name"})
    THEN TypeError("relative_name must be a Name")
    ELSE IF Truthy(crl_issuer) /\ ~AllInstances(crl_issuer, GeneralName)
    THEN TypeError("crl_issuer must be None or a list of general names")
    ELSE IF Truthy(reasons)
            /\ (~isinstance(reasons, {"frozenset"}) \/ ~(reasons.items \subseteq ReasonFlags))
    THEN TypeError("reasons must be None or frozenset of ReasonFlags")
    ELSE IF Truthy(reasons)
            /\ ("unspecified" \in reasons.items \/ "remove_from_crl" \in reasons.items)
    THEN ValueError("unspecified and remove_from_crl are not valid reasons in a DistributionPoint")
    ELSE IF Truthy(reasons) /\ ~Truthy(crl_issuer)
            /\ ~(Truthy(full_name) \/ Truthy(relative_name))
    THEN ValueError("You must supply crl_issuer, full_name, or relative_name when reasons is not None")
    ELSE NoException

----------------------------------------------------------------------------
(* AuthorityKeyIdentifier *)

\* a bytes object, given by its bytes
PyBytes(items) == [type |-> "bytes", items |-> items]

\* the object AuthorityKeyIdentifier.__init__ leaves
AuthorityKeyIdentifier(key_identifier, authority_cert_issuer, authority_cert_serial_number) ==
    [type |-> "AuthorityKeyIdentifier", oid |-> "AUTHORITY_KEY_IDENTIFIER",
     _key_identifier |-> key_identifier,
     _authority_cert_issuer |-> authority_cert_issuer,
     _authority_cert_serial_number |-> authority_cert_serial_number]

\* the exception AuthorityKeyIdentifier.__init__ raises
AuthorityKeyIdentifier_init(key_identifier, authority_cert_issuer, authority_cert_serial_number) ==
    IF Truthy(authority_cert_issuer) \/ Truthy(authority_cert_serial_number)
    THEN IF ~Truthy(authority_cert_issuer) \/ ~Truthy(authority_cert_serial_number)
         THEN ValueError("authority_cert_issuer and authority_cert_serial_number must both be present or both None")
         ELSE IF ~AllInstances(authority_cert_issuer, GeneralName)
         THEN TypeError("authority_cert_issuer must be a list of GeneralName objects")
         ELSE IF ~isinstance(authority_cert_serial_number, integer_types)
         THEN TypeError("authority_cert_serial_number must be an integer")
         ELSE NoException
    ELSE NoException

----------------------------------------------------------------------------
(* One caller constructing extension values and reading them *)

\* the longest list of names passed to a constructor
MaxNames == 2

Bools == {PyBool(TRUE), PyBool(FALSE)}

\* the IPAddress objects that can be built, over an address and a network
IPAddresses ==
    {IPAddress(v) : v \in {w \in {IPv4Address("10.0.0.1"), IPv4Network("10.0.0.0/8")} :
                              IPAddress_init(w) = NoException}}

GeneralNames == {DNSName("example.com")} \cup IPAddresses

\* lists of general names, and lists holding a str
NameLists ==
    {PyList(q) : q \in SeqsUpTo(GeneralNames, MaxNames)} \cup {PyList(<<Str("example.com")>>)}
ShortNameLists == {PyList(<<>>), PyList(<<DNSName("example.com")>>), PyList(<<Str("example.com")>>)}

CaArgs == Bools \cup {None, Zero}
PathLengthArgs == {None, Zero, Three, MinusOne, PyBool(TRUE), Str("3")}

ReasonsArgs ==
    {None, PyFrozenset({}), PyFrozenset({"key_compromise"}),
     PyFrozenset({"key_compromise", "ca_compromise"}),
     PyFrozenset({"unspecified"}), PyFrozenset({"key_compromise", "remove_from_crl"}),
     PyFrozenset({"keyCompromise"}), PyList(<<"key_compromise">>)}

RelativeNameArgs == {None, Name("CN=a"), Str("CN=a")}

KeyIdentifierArgs == {PyBytes(<<1, 2>>)}
AuthorityCertSerialNumberArgs == {None, Zero, Three, MinusOne, Str("3")}

\* the state after "import cryptography.x509": the caller holds nothing
ImportCall ==
    [caller |-> "a", method |-> "import", args |-> <<>>,
     receiver |-> None, before |-> None,
     exc |-> NoException, value |-> None, calls |-> <<>>]

InitValues ==
    /\ lists = ImportedLists
    /\ base = EmptyCertificateBuilder
    /\ held = [c \in Callers |-> None]
    /\ solo = [c \in Callers |-> [builder |-> None, heap |-> lists, exc |-> NoException]]
    /\ container = None
    /\ last = ImportCall

\* x = Class(*args) by a caller that holds nothing: exc is what __init__
\* raises and obj the object it leaves when it raises nothing
ConstructValue(c, method, args, exc, obj) ==
    /\ held[c] = None
    /\ held' = [held EXCEPT ![c] = IF exc = NoException THEN obj ELSE None]
    /\ last' = [caller |-> c, method |-> method, args |-> args,
                receiver |-> None, before |-> None,
                exc |-> exc, value |-> IF exc = NoException THEN obj ELSE None,
                calls |-> <<>>]
    /\ UNCHANGED <<lists, base, solo, container>>

\* x.name, for a property of the object the caller holds
ReadValue(c, name, run) ==
    /\ last' = [caller |-> c, method |-> name, args |-> <<>>,
                receiver |-> held[c], before |-> held[c],
                exc |-> run.exc, value |-> run.value, calls |-> run.calls]
    /\ UNCHANGED <<lists, base, held, solo, container>>

\* del x
Drop(c) ==
    /\ held[c] # None
    /\ held' = [held EXCEPT ![c] = None]
    /\ last' = [caller |-> c, method |-> "del", args |-> <<>>,
                receiver |-> held[c], before |-> held[c],
                exc |-> NoException, value |-> None, calls |-> <<>>]
    /\ UNCHANGED <<lists, base, solo, container>>

New_BasicConstraints(c, ca, path_length) ==
    /\ c \in DOMAIN held
    /\ ConstructValue(c, "BasicConstraints.__init__", <<ca, path_length>>,
                      BasicConstraints_init(ca, path_length),
                      BasicConstraints(ca, path_length))

Get_BasicConstraints(c, name) ==
    /\ held[c].type = "BasicConstraints"
    /\ ReadValue(c, name, read_only_property(held[c], Attribute[name]))

New_KeyUsage(c, digital_signature, content_commitment, key_encipherment, data_encipherment, key_agreement, key_cert_sign, crl_sign, encipher_only, decipher_only) ==
    /\ c \in DOMAIN held
    /\ ConstructValue(c, "KeyUsage.__init__",
                      <<digital_signature, content_commitment, key_encipherment,
                        data_encipherment, key_agreement, key_cert_sign, crl_sign,
                        encipher_only, decipher_only>>,
                      KeyUsage_init(digital_signature, content_commitment,
                                    key_encipherment, data_encipherment, key_agreement,
                                    key_cert_sign, crl_sign, encipher_only, decipher_only),
                      KeyUsage(digital_signature, content_commitment,
                               key_encipherment, data_encipherment, key_agreement,
                               key_cert_sign, crl_sign, encipher_only, decipher_only))

Get_KeyUsage_flag(c, name) ==
    /\ held[c].type = "KeyUsage"
    /\ ReadValue(c, name, read_only_property(held[c], Attribute[name]))

Get_KeyUsage_encipher_only(c) ==
    /\ held[c].type = "KeyUsage"
    /\ ReadValue(c, "encipher_only", KeyUsage_encipher_only(held[c]))

Get_KeyUsage_decipher_only(c) ==
    /\ held[c].type = "KeyUsage"
    /\ ReadValue(c, "decipher_only", KeyUsage_decipher_only(held[c]))

New_NameConstraints(c, permitted_subtrees, excluded_subtrees) ==
    /\ c \in DOMAIN held
    /\ ConstructValue(c, "NameConstraints.__init__",
                      <<permitted_subtrees, excluded_subtrees>>,
                      NameConstraints_init(permitted_subtrees, excluded_subtrees),
                      NameConstraints(permitted_subtrees, excluded_subtrees))

New_DistributionPoint(c, full_name, relative_name, reasons, crl_issuer) ==
    /\ c \in DOMAIN held
    /\ ConstructValue(c, "DistributionPoint.__init__",
                      <<full_name, relative_name, reasons, crl_issuer>>,
                      DistributionPoint_init(full_name, relative_name, reasons, crl_issuer),
                      DistributionPoint(full_name, relative_name, reasons, crl_issuer))

New_AuthorityKeyIdentifier(c, key_identifier, authority_cert_issuer, authority_cert_serial_number) ==
    /\ c \in DOMAIN held
    /\ ConstructValue(c, "AuthorityKeyIdentifier.__init__",
                      <<key_identifier, authority_cert_issuer, authority_cert_serial_number>>,
                      AuthorityKeyIdentifier_init(key_identifier, authority_cert_issuer,
                                                  authority_cert_serial_number),
                      AuthorityKeyIdentifier(key_identifier, authority_cert_issuer,
                                             authority_cert_serial_number))

NextValues ==
    \E c \in Callers :
        \/ Drop(c)
        \/ \E ca \in CaArgs, path_length \in PathLengthArgs :
               New_BasicConstraints(c, ca, path_length)
        \/ \E name \in {"ca", "path_length"} : Get_BasicConstraints(c, name)
        \/ \E digital_signature \in Bools, content_commitment \in Bools,
              key_encipherment \in Bools, data_encipherment \in Bools,
              key_agreement \in Bools, key_cert_sign \in Bools, crl_sign \in Bools,
              encipher_only \in Bools, decipher_only \in Bools :
               New_KeyUsage(c, digital_signature, content_commitment, key_encipherment,
                            data_encipherment, key_agreement, key_cert_sign, crl_sign,
                            encipher_only, decipher_only)
        \/ \E name \in KeyUsageFlags : Get_KeyUsage_flag(c, name)
        \/ Get_KeyUsage_encipher_only(c)
        \/ Get_KeyUsage_decipher_only(c)
        \/ \E permitted_subtrees \in NameLists \cup {None},
              excluded_subtrees \in NameLists \cup {None} :
               New_NameConstraints(c, permitted_subtrees, excluded_subtrees)
        \/ \E full_name \in ShortNameLists \cup {None}, relative_name \in RelativeNameArgs,
              reasons \in ReasonsArgs, crl_issuer \in ShortNameLists \cup {None} :
               New_DistributionPoint(c, full_name, relative_name, reasons, crl_issuer)
        \/ \E key_identifier \in KeyIdentifierArgs,
              authority_cert_issuer \in ShortNameLists \cup {None},
              authority_cert_serial_number \in AuthorityCertSerialNumberArgs :
               New_AuthorityKeyIdentifier(c, key_identifier, authority_cert_issuer,
                                          authority_cert_serial_number)

SpecValues == InitValues /\ [][NextValues]_vars

----------------------------------------------------------------------------
(* Key identifiers *)

\* the most bytes in the subjectPublicKey of a key
MaxKeyBytes == 3

\* a public key object whose subjectPublicKey is the bit string made of the
\* bytes spk
EncodedPublicKey(cls, spk) == [type |-> cls, spk |-> spk]

\* public_key.public_bytes(Encoding.DER, PublicFormat.SubjectPublicKeyInfo):
\* the SubjectPublicKeyInfo, its BIT STRING encoded as the number of unused
\* bits of the last byte (none) followed by the bytes
public_bytes(public_key) ==
    [algorithm |-> public_key.type, subjectPublicKey |-> <<0>> \o public_key.spk]

\* the bits of a byte, most significant first
ByteBits(b) == [i \in 1..8 |-> (b \div (2 ^ (8 - i))) % 2]

\* decoder.decode(serialized, asn1Spec=_SubjectPublicKeyInfo()): the
\* univ.BitString is the tuple of the bits of the bytes after the first, less
\* the unused ones
decode(serialized) ==
    LET content == Tail(serialized.subjectPublicKey)
        unused == Head(serialized.subjectPublicKey)
    IN [algorithm |-> serialized.algorithm,
        subjectPublicKey |->
            [k \in 1..(8 * Len(content) - unused) |->
                ByteBits(content[((k - 1) \div 8) + 1])[((k - 1) % 8) + 1]]]

\* bits << 1 | bit, for an integer bits that is not negative
ShiftLeftOr(bits, bit) ==
    IF bits.bits = <<>> /\ bit = 0 THEN Zero
    ELSE PyInt(FALSE, Append(bits.bits, bit))

\* the for loop of _key_identifier_from_public_key from the i-th bit on,
\* bits being the integer built so far
RECURSIVE BitsLoop(_, _, _)
BitsLoop(tuple, i, bits) ==
    IF i > Len(tuple) THEN bits
    ELSE BitsLoop(tuple, i + 1, ShiftLeftOr(bits, tuple[i]))

\* utils.int_to_bytes(integer): the bytes of the hexadecimal numeral of the
\* integer ('%x'), filled with a leading '0' to an even number of digits
int_to_bytes(integer) ==
    LET n == IF integer.bits = <<>> THEN 1 ELSE (Len(integer.bits) + 7) \div 8
        pad == 8 * n - Len(integer.bits)
        digit(k) == IF k <= pad THEN 0 ELSE integer.bits[k - pad]
    IN PyBytes([j \in 1..n |->
                   digit(8 * j - 7) * 128 + digit(8 * j - 6) * 64
                   + digit(8 * j - 5) * 32 + digit(8 * j - 4) * 16
                   + digit(8 * j - 3) * 8 + digit(8 * j - 2) * 4
                   + digit(8 * j - 1) * 2 + digit(8 * j)])

\* the size in bytes of a SHA-1 digest
Sha1DigestSize == 20

\* hashlib.sha1(data).digest(): a bytes object of 20 bytes that the data
\* determines, and that differs for the data tried here
sha1(data) == [type |-> "bytes", digest_size |-> Sha1DigestSize, sha1_of |-> data.items]

\* _key_identifier_from_public_key(public_key); calls records the data given
\* to hashlib.sha1
_key_identifier_from_public_key(public_key) ==
    LET serialized == public_bytes(public_key)
        spki == decode(serialized)
        bits == BitsLoop(spki.subjectPublicKey, 1, Zero)
        data == int_to_bytes(bits)
    IN Return(sha1(data), ImportedLists, <<[method |-> "hashlib.sha1", data |-> data]>>)

\* the object SubjectKeyIdentifier.__init__ leaves
SubjectKeyIdentifier(digest) ==
    [type |-> "SubjectKeyIdentifier", oid |-> "SUBJECT_KEY_IDENTIFIER", _digest |-> digest]

\* SubjectKeyIdentifier.from_public_key(public_key)
SubjectKeyIdentifier_from_public_key(public_key) ==
    LET digest == _key_identifier_from_public_key(public_key)
    IN Return(SubjectKeyIdentifier(digest.value), ImportedLists, digest.calls)

\* AuthorityKeyIdentifier.from_issuer_public_key(public_key)
AuthorityKeyIdentifier_from_issuer_public_key(public_key) ==
    LET digest == _key_identifier_from_public_key(public_key)
    IN IF AuthorityKeyIdentifier_init(digest.value, None, None) # NoException
       THEN Raise(AuthorityKeyIdentifier_init(digest.value, None, None), ImportedLists)
       ELSE Return(AuthorityKeyIdentifier(digest.value, None, None), ImportedLists,
                   digest.calls)

\* the bytes of a subjectPublicKey: zero, a low bit, a high bit, all bits
KeyBytes == {0, 1, 128, 255}

EncodedPublicKeys ==
    {EncodedPublicKey("RSAPublicKey", spk) : spk \in SeqsUpTo(KeyBytes, MaxKeyBytes)}

\* the caller holds a public key
InitKeyIdentifier ==
    \E public_key \in EncodedPublicKeys :
        /\ lists = ImportedLists
        /\ base = EmptyCertificateBuilder
        /\ held = [c \in Callers |-> public_key]
        /\ solo = [c \in Callers |-> [builder |-> None, heap |-> lists, exc |-> NoException]]
        /\ container = None
        /\ last = ImportCall

\* f(k), for the public key k the caller holds
CallWithKey(c, method, run) ==
    /\ last' = [caller |-> c, method |-> method, args |-> <<held[c]>>,
                receiver |-> None, before |-> None,
                exc |-> run.exc, value |-> run.value, calls |-> run.calls]
    /\ UNCHANGED <<lists, base, held, solo, container>>

Call__key_identifier_from_public_key(c) ==
    /\ c \in DOMAIN held
    /\ CallWithKey(c, "_key_identifier_from_public_key",
                   _key_identifier_from_public_key(held[c]))

Call_SubjectKeyIdentifier_from_public_key(c) ==
    /\ c \in DOMAIN held
    /\ CallWithKey(c, "SubjectKeyIdentifier.from_public_key",
                   SubjectKeyIdentifier_from_public_key(held[c]))

Call_AuthorityKeyIdentifier_from_issuer_public_key(c) ==
    /\ c \in DOMAIN held
    /\ CallWithKey(c, "AuthorityKeyIdentifier.from_issuer_public_key",
                   AuthorityKeyIdentifier_from_issuer_public_key(held[c]))

NextKeyIdentifier ==
    \E c \in Callers :
        \/ Call__key_identifier_from_public_key(c)
        \/ Call_SubjectKeyIdentifier_from_public_key(c)
        \/ Call_AuthorityKeyIdentifier_from_issuer_public_key(c)

SpecKeyIdentifier == InitKeyIdentifier /\ [][NextKeyIdentifier]_vars

----------------------------------------------------------------------------
(* Equality of extension values *)

\* a reference to an object: the object's identity and its attributes
Ref(id, obj) == [id |-> id, obj |-> obj]

\* what __eq__ returns when it does not know the other object
NotImplemented == [type |-> "NotImplementedType"]

\* object.__eq__, which a class that defines no __eq__ inherits: an object
\* equals itself and knows no other
object_eq(self, other) ==
    IF self.id = other.id THEN PyBool(TRUE) ELSE NotImplemented

BasicConstraints_eq(self, other) ==
    IF ~isinstance(other.obj, {"BasicConstraints"}) THEN NotImplemented
    ELSE PyBool(/\ self.obj._ca = other.obj._ca
                /\ self.obj._path_length = other.obj._path_length)

KeyUsage_eq(self, other) ==
    IF ~isinstance(other.obj, {"KeyUsage"}) THEN NotImplemented
    ELSE PyBool(/\ self.obj._digital_signature = other.obj._digital_signature
                /\ self.obj._content_commitment = other.obj._content_commitment
                /\ self.obj._key_encipherment = other.obj._key_encipherment
                /\ self.obj._data_encipherment = other.obj._data_encipherment
                /\ self.obj._key_agreement = other.obj._key_agreement
                /\ self.obj._key_cert_sign = other.obj._key_cert_sign
                /\ self.obj._crl_sign = other.obj._crl_sign
                /\ self.obj._encipher_only = other.obj._encipher_only
                /\ self.obj._decipher_only = other.obj._decipher_only)

\* the lists compare equal when their names do, each name by its value
NameConstraints_eq(self, other) ==
    IF ~isinstance(other.obj, {"NameConstraints"}) THEN NotImplemented
    ELSE PyBool(/\ self.obj._excluded_subtrees = other.obj._excluded_subtrees
                /\ self.obj._permitted_subtrees = other.obj._permitted_subtrees)

\* type(self).__eq__(self, other)
ClassEq(self, other) ==
    CASE self.obj.type = "BasicConstraints" -> BasicConstraints_eq(self, other)
      [] self.obj.type = "KeyUsage" -> KeyUsage_eq(self, other)
      [] self.obj.type = "NameConstraints" -> NameConstraints_eq(self, other)
      [] OTHER -> object_eq(self, other)

\* a == b: a's __eq__, then b's when a's returns NotImplemented, then
\* identity
PyEquals(a, b) ==
    IF ClassEq(a, b) # NotImplemented THEN ClassEq(a, b)
    ELSE IF ClassEq(b, a) # NotImplemented THEN ClassEq(b, a)
    ELSE PyBool(a.id = b.id)

\* the two names x and y of a program that constructs and compares values
Variables == {"x", "y"}

\* the identity of a new object: one no live object has
NewId(refs) ==
    CHOOSE n \in 1..(Cardinality(Variables) + 1) :
        /\ \A v \in Variables : refs[v] # None => refs[v].id # n
        /\ \A m \in 1..(n - 1) : \E v \in Variables : refs[v] # None /\ refs[v].id = m

InitEquality ==
    /\ lists = ImportedLists
    /\ base = EmptyCertificateBuilder
    /\ held = [v \in Variables |-> None]
    /\ solo = [c \in Callers |-> [builder |-> None, heap |-> lists, exc |-> NoException]]
    /\ container = None
    /\ last = ImportCall

\* v = Class(*args): the name v is bound to the new object, or left as it
\* is when __init__ raises
Bind(v, method, args, exc, obj) ==
    LET ref == Ref(NewId([held EXCEPT ![v] = None]), obj)
    IN /\ held' = [held EXCEPT ![v] = IF exc = NoException THEN ref ELSE @]
       /\ last' = [caller |-> v, method |-> method, args |-> args,
                   receiver |-> None, before |-> None,
                   exc |-> exc, value |-> IF exc = NoException THEN ref ELSE None,
                   calls |-> <<>>]
       /\ UNCHANGED <<lists, base, solo, container>>

Bind_OCSPNoCheck(v) ==
    /\ v \in DOMAIN held
    /\ Bind(v, "OCSPNoCheck.__init__", <<>>, NoException, OCSPNoCheck)

Bind_BasicConstraints(v, ca, path_length) ==
    /\ v \in DOMAIN held
    /\ Bind(v, "BasicConstraints.__init__", <<ca, path_length>>,
            BasicConstraints_init(ca, path_length), BasicConstraints(ca, path_length))

\* KeyUsage with four of the flags given and the others False
Bind_KeyUsage(v, digital_signature, key_agreement, encipher_only, decipher_only) ==
    /\ v \in DOMAIN held
    /\ Bind(v, "KeyUsage.__init__",
            <<digital_signature, PyBool(FALSE), PyBool(FALSE), PyBool(FALSE),
              key_agreement, PyBool(FALSE), PyBool(FALSE), encipher_only, decipher_only>>,
            KeyUsage_init(digital_signature, PyBool(FALSE), PyBool(FALSE), PyBool(FALSE),
                          key_agreement, PyBool(FALSE), PyBool(FALSE), encipher_only,
                          decipher_only),
            KeyUsage(digital_signature, PyBool(FALSE), PyBool(FALSE), PyBool(FALSE),
                     key_agreement, PyBool(FALSE), PyBool(FALSE), encipher_only,
                     decipher_only))

Bind_NameConstraints(v, permitted_subtrees, excluded_subtrees) ==
    /\ v \in DOMAIN held
    /\ Bind(v, "NameConstraints.__init__", <<permitted_subtrees, excluded_subtrees>>,
            NameConstraints_init(permitted_subtrees, excluded_subtrees),
            NameConstraints(permitted_subtrees, excluded_subtrees))

\* v = w: two names for one object
Bind_name(v, w) ==
    /\ v # w
    /\ held[w] # None
    /\ held[v] # held[w]
    /\ held' = [held EXCEPT ![v] = held[w]]
    /\ last' = [caller |-> v, method |-> "=", args |-> <<held[w]>>,
                receiver |-> None, before |-> None,
                exc |-> NoException, value |-> held[w], calls |-> <<>>]
    /\ UNCHANGED <<lists, base, solo, container>>

\* v == w
Compare(v, w) ==
    /\ held[v] # None
    /\ held[w] # None
    /\ last' = [caller |-> v, method |-> "==", args |-> <<held[w]>>,
                receiver |-> held[v], before |-> held[v],
                exc |-> NoException, value |-> PyEquals(held[v], held[w]),
                calls |-> <<>>]
    /\ UNCHANGED <<lists, base, held, solo, container>>

EqualityLists == {None, PyList(<<>>), PyList(<<DNSName("example.com")>>)}

NextEquality ==
    \E v \in Variables :
        \/ Bind_OCSPNoCheck(v)
        \/ \E ca \in Bools, path_length \in {None, Zero, Three} :
               Bind_BasicConstraints(v, ca, path_length)
        \/ \E digital_signature \in Bools, key_agreement \in Bools,
              encipher_only \in Bools, decipher_only \in Bools :
               Bind_KeyUsage(v, digital_signature, key_agreement, encipher_only,
                             decipher_only)
        \/ \E permitted_subtrees \in EqualityLists, excluded_subtrees \in EqualityLists :
               Bind_NameConstraints(v, permitted_subtrees, excluded_subtrees)
        \/ \E w \in Variables : Bind_name(v, w)
        \/ \E w \in Variables : Compare(v, w)

SpecEquality == InitEquality /\ [][NextEquality]_vars

----------------------------------------------------------------------------
(* What the claims speak of *)

ScalarSetters ==
    {"issuer_name", "subject_name", "public_key", "serial_number",
     "not_valid_before", "not_valid_after"}

\* the attribute each setter targets and the class of a well-typed argument
TargetField ==
    [issuer_name |-> "_issuer_name", subject_name |-> "_subject_name",
     public_key |-> "_public_key", serial_number |-> "_serial_number",
     not_valid_before |-> "_not_valid_before", not_valid_after |-> "_not_valid_after"]
ArgumentTypes ==
    [issuer_name |-> {"Name"}, subject_name |-> {"Name"},
     public_key |-> PublicKeyTypes, serial_number |-> {"int"},
     not_valid_before |-> {"datetime"}, not_valid_after |-> {"datetime"}]

Succeeded == last.exc = NoException
Failed == last.exc # NoException

\* the last call was setter m with a well-typed argument
WellTypedSetter == 
    /\ last.method \in ScalarSetters
    /\ isinstance(last.args[1], ArgumentTypes[last.method])

\* the last call was add_extension with an ExtensionType and a bool
WellTypedAddExtension ==
    /\ last.method = "add_extension"
    /\ isinstance(last.args[1], ExtensionType)
    /\ isinstance(last.args[2], {"bool"})

OnCertificateBuilder == last.receiver.type = "CertificateBuilder"
OnCSRBuilder == last.receiver.type = "CertificateSigningRequestBuilder"

\* the last call left no new builder: it returned nothing and its caller
\* holds the receiver as before
NoNewBuilder == last.value = None /\ held[last.caller] = last.receiver

----------------------------------------------------------------------------
(* C1 *)

\* C1: a setter called with a well-typed value on a builder whose target
\* field is already populated fails and yields no new builder, whatever the
\* stored value is and whether or not the new value equals it.
C1_SetAtMostOnce ==
    (WellTypedSetter /\ last.before[TargetField[last.method]] # None)
        => Failed /\ NoNewBuilder

\* a stored serial number of 0, and a second call with another number
C1_Witness ==
    /\ OnCertificateBuilder
    /\ last.method = "serial_number"
    /\ last.before._serial_number = Zero
    /\ last.args[1] = Pow2(MaxSerialBits - 1)
    /\ Failed

----------------------------------------------------------------------------
(* C2 *)

\* the accumulated list of the receiver already held an extension with the
\* oid of the value passed
DuplicateOid ==
    \E i \in 1..Len(last.before._extensions) :
        last.before._extensions[i].oid = last.args[1].oid

\* C2 as stated: add_extension fails with DuplicateExtension whenever the
\* accumulated list already holds an extension with the OID of the value.
C2_Original ==
    (WellTypedAddExtension /\ DuplicateOid)
        => last.exc.class = "DuplicateExtension"

\* C2, amended: add_extension fails with ValueError ("This extension has
\* already been set.") and yields no builder whenever the accumulated list
\* already holds an extension with the OID of the value, whatever the
\* critical flags and the calls in between.
C2_DuplicateOidRefused ==
    (WellTypedAddExtension /\ DuplicateOid)
        => /\ last.exc = ValueError("This extension has already been set.")
           /\ NoNewBuilder

\* a second value of an extension type, with the other critical flag, after
\* an extension of another type was added in between
C2_Witness ==
    /\ WellTypedAddExtension
    /\ OnCertificateBuilder
    /\ Len(last.before._extensions) = 2
    /\ last.before._extensions[1].oid = last.args[1].oid
    /\ last.before._extensions[1].critical # last.args[2]
    /\ last.before._extensions[1].value # last.args[1]
    /\ last.before._subject_name # None
    /\ Failed

----------------------------------------------------------------------------
(* C3 *)

MandatoryFields ==
    {"_subject_name", "_issuer_name", "_serial_number", "_not_valid_before",
     "_not_valid_after", "_public_key"}

\* the mandatory fields of the receiver of the last call were all set
Ready ==
    IF OnCertificateBuilder
    THEN \A f \in MandatoryFields : last.before[f] # None
    ELSE last.before._subject_name # None

\* C3: sign invokes the backend if and only if every mandatory field is set
\* (the six fields of a certificate, the subject name of a request); in every
\* other case sign fails and the backend is not called.  No other method
\* calls the backend.
C3_SignFailsFast ==
    /\ last.method = "sign" =>
          /\ Len(last.calls) > 0 <=> Ready
          /\ ~Ready => Failed /\ last.value = None
    /\ last.method # "sign" => last.calls = <<>>

\* sign reaching the backend with every mandatory field set and no extension
C3_Witness ==
    /\ last.method = "sign"
    /\ OnCertificateBuilder
    /\ Ready
    /\ last.before._extensions = <<>>
    /\ Len(last.calls) = 1

----------------------------------------------------------------------------
(* C4 *)

\* a <= b for two non-negative integers given by their binary digits
\* (of equal length: equal, or smaller at the first digit that differs)
Leq(a, b) ==
    \/ Len(a.bits) < Len(b.bits)
    \/ /\ Len(a.bits) = Len(b.bits)
       /\ \/ a.bits = b.bits
          \/ \E i \in 1..Len(a.bits) :
                /\ a.bits[i] < b.bits[i]
                /\ \A j \in 1..(i - 1) : a.bits[j] = b.bits[j]

\* 0 <= n <= 2**160 - 1
SerialInRange(n) == ~n.neg /\ Leq(n, Pow2Minus1(MaxSerialBits))

\* C4: on a builder whose serial number is unset, serial_number(n) for an
\* integer n succeeds if and only if 0 <= n < 2**160 (0, 2**159 and 2**160 - 1
\* succeed; -1, 2**160 and 2**161 fail), and no builder a caller holds has a
\* serial number outside that range.
C4_SerialNumberRange ==
    /\ (OnCertificateBuilder /\ last.method = "serial_number"
            /\ isinstance(last.args[1], {"int"})
            /\ last.before._serial_number = None)
        => /\ Succeeded <=> SerialInRange(last.args[1])
           /\ last.args[1] \in {Zero, Pow2(MaxSerialBits - 1), Pow2Minus1(MaxSerialBits)}
                 => Succeeded /\ last.value._serial_number = last.args[1]
           /\ last.args[1] \in {MinusOne, Pow2(MaxSerialBits), Pow2(MaxSerialBits + 1)}
                 => Failed /\ NoNewBuilder
    /\ \A c \in DOMAIN held :
          held[c].type = "CertificateBuilder" /\ held[c]._serial_number # None
              => SerialInRange(held[c]._serial_number)

\* the largest serial number, 2**160 - 1, accepted
C4_Witness ==
    /\ OnCertificateBuilder
    /\ last.method = "serial_number"
    /\ last.args[1] = Pow2Minus1(MaxSerialBits)
    /\ Succeeded
    /\ held[last.caller]._serial_number = Pow2Minus1(MaxSerialBits)

----------------------------------------------------------------------------
(* C5 *)

\* the Extension add_extension builds from its arguments
Added == Extension(last.args[1].oid, last.args[2], last.args[1])

\* C5: a setter or add_extension that succeeds returns a builder that differs
\* from the receiver in the targeted field alone (or in one extension appended
\* to the list); the receiver's fields and extension list are as before the
\* call, whether it succeeded or failed, and a failed call yields no builder.
C5_PureWithField ==
    last.method \in ScalarSetters \cup {"add_extension"} =>
        /\ Deep(last.receiver, lists) = last.before
        /\ Failed => NoNewBuilder
        /\ Succeeded => held[last.caller] = last.value
        /\ (Succeeded /\ last.method \in ScalarSetters) =>
              Deep(last.value, lists) =
                  [last.before EXCEPT ![TargetField[last.method]] = last.args[1]]
        /\ (Succeeded /\ last.method = "add_extension") =>
              Deep(last.value, lists) =
                  [last.before EXCEPT !._extensions = Append(@, Added)]

\* an extension appended to a list that held one, on a builder with fields set
C5_Witness ==
    /\ OnCertificateBuilder
    /\ last.method = "add_extension"
    /\ Succeeded
    /\ Len(last.before._extensions) = 1
    /\ last.before._subject_name # None
    /\ last.before._serial_number # None
    /\ Len(lists[last.value._extensions]) = 2

----------------------------------------------------------------------------
(* C6 *)

\* every caller holds what it holds in the world where it runs alone, the
\* last call ended as it ends there, and the base is as it started
AsAlone ==
    /\ \A c \in DOMAIN held :
          Deep(held[c], lists) = Deep(solo[c].builder, solo[c].heap)
    /\ last.caller \in DOMAIN solo => last.exc = solo[last.caller].exc
    /\ \E s \in SharedStarts :
          base = s.builder /\ Deep(base, lists) = Deep(s.builder, s.heap)

\* a step of one caller leaves the builders of the others, and the base, with
\* the fields and the extension list they had
OthersUntouched ==
    /\ \A d \in DOMAIN held :
          last'.caller # d =>
              held'[d] = held[d] /\ Deep(held'[d], lists') = Deep(held[d], lists)
    /\ base' = base /\ Deep(base', lists') = Deep(base, lists)

\* C6: builders derived from a shared base by interleaved calls of several
\* callers are independent: no call of one caller changes a field or the
\* extension list of the base or of a builder another caller holds, and each
\* caller holds the builder it would hold running alone.
C6_Independent == []AsAlone /\ [][OthersUntouched]_vars

\* two callers with different serial numbers and different extension lists,
\* both derived from a base with a list of its own
C6_Witness ==
    /\ DOMAIN held = SharedCallers
    /\ base = ConfiguredStart.builder
    /\ held["a"]._serial_number = Zero
    /\ held["b"]._serial_number = Pow2(MaxSerialBits - 1)
    /\ Len(lists[held["a"]._extensions]) = 2
    /\ Len(lists[held["b"]._extensions]) = 1
    /\ held["b"]._subject_name # None

----------------------------------------------------------------------------
(* C7 *)

ValiditySetters == {"not_valid_before", "not_valid_after"}

\* C7: on a builder whose field is unset, not_valid_before(t) and
\* not_valid_after(t) succeed if and only if t is strictly after the epoch; a
\* time at or before the epoch fails and yields no builder.
C7_AfterEpoch ==
    (OnCertificateBuilder /\ last.method \in ValiditySetters
        /\ isinstance(last.args[1], {"datetime"})
        /\ last.before[TargetField[last.method]] = None)
    => /\ Succeeded <=> last.args[1].seconds > _UNIX_EPOCH.seconds
       /\ Succeeded => last.value[TargetField[last.method]] = last.args[1]
       /\ Failed => NoNewBuilder

\* the epoch itself refused by not_valid_before
C7_Witness ==
    /\ OnCertificateBuilder
    /\ last.method = "not_valid_before"
    /\ last.args[1] = _UNIX_EPOCH
    /\ last.before._not_valid_before = None
    /\ Failed

----------------------------------------------------------------------------
(* C8 *)

AfterEpochArg ==
    /\ isinstance(last.args[1], {"datetime"})
    /\ last.args[1].seconds > _UNIX_EPOCH.seconds

\* C8: the builder enforces no order between the two times: with one of them
\* set, the setter of the other accepts any time after the epoch (earlier,
\* equal or later) and keeps both, and sign on a builder with every mandatory
\* field set reaches the backend with that builder whatever the order of its
\* times.
C8_NoOrdering ==
    /\ (OnCertificateBuilder /\ last.method = "not_valid_before" /\ AfterEpochArg
            /\ last.before._not_valid_before = None
            /\ last.before._not_valid_after # None)
        => /\ Succeeded
           /\ last.value._not_valid_before = last.args[1]
           /\ last.value._not_valid_after = last.before._not_valid_after
    /\ (OnCertificateBuilder /\ last.method = "not_valid_after" /\ AfterEpochArg
            /\ last.before._not_valid_after = None
            /\ last.before._not_valid_before # None)
        => /\ Succeeded
           /\ last.value._not_valid_after = last.args[1]
           /\ last.value._not_valid_before = last.before._not_valid_before
    /\ (OnCertificateBuilder /\ last.method = "sign" /\ Ready)
        => /\ Len(last.calls) = 1
           /\ last.calls[1].builder = last.receiver

\* sign reaching the backend with not_valid_before later than not_valid_after
C8_Witness ==
    /\ OnCertificateBuilder
    /\ last.method = "sign"
    /\ Len(last.calls) = 1
    /\ last.calls[1].builder._not_valid_before.seconds
           > last.calls[1].builder._not_valid_after.seconds

----------------------------------------------------------------------------
(* C9 *)

\* the places of the container's list that hold an extension with the oid asked for
Matches == {i \in 1..Len(last.before._extensions) :
               last.before._extensions[i].oid = last.args[1]}

\* C9: get_extension_for_oid(oid) returns the first extension, in container
\* order, whose oid is the argument; when there is none it raises
\* ExtensionNotFound carrying the oid asked for, and it never returns None.
\* The lookup leaves the container as it was.
C9_FirstMatch ==
    last.method = "get_extension_for_oid" =>
        /\ Matches # {} =>
              /\ Succeeded
              /\ \E i \in Matches :
                    /\ \A j \in Matches : i <= j
                    /\ last.value = last.before._extensions[i]
        /\ Matches = {} =>
              /\ last.exc.class = "ExtensionNotFound"
              /\ last.exc.oid = last.args[1]
        /\ Succeeded => last.value # None /\ last.value.type = "Extension"
        /\ container = last.receiver
        /\ Deep(container, lists) = last.before

\* two different extensions with the oid asked for, behind one with another
\* oid: the first of the two is returned
C9_Witness ==
    /\ last.method = "get_extension_for_oid"
    /\ Len(last.before._extensions) = 3
    /\ Matches = {2, 3}
    /\ last.before._extensions[2] # last.before._extensions[3]
    /\ last.value = last.before._extensions[2]

----------------------------------------------------------------------------
(* C10 *)

\* no two items of seq share an oid, each item's oid is the oid of its value,
\* and a lookup by oid matches at most one item
UniqueOids(seq) ==
    /\ \A i, j \in 1..Len(seq) : seq[i].oid = seq[j].oid => i = j
    /\ \A i \in 1..Len(seq) : seq[i].oid = seq[i].value.oid
    /\ \A oid \in ObjectIdentifier :
          Cardinality({i \in 1..Len(seq) : seq[i].oid = oid}) <= 1

\* C10: in every builder reached from an empty builder by setter and
\* add_extension calls, successful or failing, no two accumulated extensions
\* share an OID and each extension's oid is the OID of its value, so a lookup
\* by OID has at most one match.
C10_ExtensionsUnique ==
    /\ \A c \in DOMAIN held : UniqueOids(lists[held[c]._extensions])
    /\ UniqueOids(last.before._extensions)

\* a request builder holding two extensions after a call that failed
C10_Witness ==
    /\ OnCSRBuilder
    /\ WellTypedAddExtension
    /\ Failed
    /\ Len(lists[held[last.caller]._extensions]) = 2

----------------------------------------------------------------------------
(* C11 *)

\* the backend method each builder's sign calls
BackendMethod ==
    IF OnCertificateBuilder THEN "create_x509_certificate" ELSE "create_x509_csr"

\* C11: when every mandatory field is set, sign calls the backend exactly
\* once, with the builder itself, the private key and the algorithm it was
\* given, and ends as the backend call ends: it returns the artifact the
\* backend returns and raises what the backend raises, unchanged; the builder
\* is as it was.
C11_SignIsBackendOutcome ==
    (last.method = "sign" /\ Ready) =>
        /\ last.calls = <<[method |-> BackendMethod, builder |-> last.receiver,
                           private_key |-> last.args[1], algorithm |-> last.args[2]]>>
        /\ last.exc = last.args[3].exc
        /\ last.value = last.args[3].value
        /\ Deep(last.receiver, lists) = last.before

\* a request with a subject name and an extension, and a backend that raises
C11_Witness ==
    /\ OnCSRBuilder
    /\ last.method = "sign"
    /\ Ready
    /\ Len(last.before._extensions) = 1
    /\ Len(last.calls) = 1
    /\ last.exc = [class |-> "backend error"]
    /\ last.value = None

----------------------------------------------------------------------------
(* C12 *)

\* the names of the parameters of KeyUsage.__init__, in order
KeyUsageParameters ==
    <<"digital_signature", "content_commitment", "key_encipherment",
      "data_encipherment", "key_agreement", "key_cert_sign", "crl_sign",
      "encipher_only", "decipher_only">>

\* the value passed for parameter name when the KeyUsage k was constructed,
\* as the constructor stored it
Constructed(k, name) ==
    CASE name = "encipher_only" -> k._encipher_only
      [] name = "decipher_only" -> k._decipher_only
      [] OTHER -> k[Attribute[name]]

OnKeyUsage == last.receiver.type = "KeyUsage"

\* C12: a KeyUsage keeps the nine values it was constructed with; reading
\* encipher_only or decipher_only raises the "undefined unless key_agreement
\* is true" ValueError when key_agreement is false (it returns nothing, not
\* False) and returns the constructed value when key_agreement is true; the
\* other seven flags are always readable and return the constructed values.
C12_KeyUsageReads ==
    /\ (last.method = "KeyUsage.__init__" /\ Succeeded) =>
          \A i \in 1..9 : Constructed(last.value, KeyUsageParameters[i]) = last.args[i]
    /\ (OnKeyUsage /\ last.method \in {"encipher_only", "decipher_only"}) =>
          IF last.receiver._key_agreement = PyBool(TRUE)
          THEN Succeeded /\ last.value = Constructed(last.receiver, last.method)
          ELSE /\ last.exc.class = "ValueError"
               /\ last.value = None
               /\ last.value # PyBool(FALSE)
    /\ (OnKeyUsage /\ last.method \in KeyUsageFlags) =>
          Succeeded /\ last.value = Constructed(last.receiver, last.method)
    /\ (OnKeyUsage /\ last.method # "del") => held[last.caller] = last.receiver

\* encipher_only read on a KeyUsage whose key_agreement is false
C12_Witness ==
    /\ OnKeyUsage
    /\ last.method = "encipher_only"
    /\ last.receiver._key_agreement = PyBool(FALSE)
    /\ last.receiver._digital_signature = PyBool(TRUE)
    /\ last.exc = ValueError("encipher_only is undefined unless key_agreement is true")

----------------------------------------------------------------------------
(* C13 *)

\* x is an integer (an instance of six.integer_types) that is not below 0
NonNegativeInteger(x) == isinstance(x, integer_types) /\ ~LessThanZero(x)

\* the caller holds the object the constructor left, or nothing when it raised
HoldsConstructed ==
    /\ Succeeded => last.value # None /\ held[last.caller] = last.value
    /\ Failed => last.value = None /\ held[last.caller] = None

\* C13: BasicConstraints(ca, path_length) fails when ca is false and
\* path_length is not None, and when path_length is not None and not a
\* non-negative integer; with ca true and a non-negative integer path_length
\* (0 included), or with path_length None, it succeeds, and ca and
\* path_length read back the constructed values.
C13_BasicConstraints ==
    /\ last.method = "BasicConstraints.__init__" =>
          /\ (last.args[1] = PyBool(FALSE) /\ last.args[2] # None) => Failed
          /\ (last.args[2] # None /\ ~NonNegativeInteger(last.args[2])) => Failed
          /\ (last.args[1] = PyBool(TRUE) /\ NonNegativeInteger(last.args[2])) => Succeeded
          /\ (isinstance(last.args[1], {"bool"}) /\ last.args[2] = None) => Succeeded
          /\ Succeeded => /\ last.value._ca = last.args[1]
                          /\ last.value._path_length = last.args[2]
          /\ HoldsConstructed
    /\ (last.receiver.type = "BasicConstraints" /\ last.method \in {"ca", "path_length"}) =>
          /\ Succeeded
          /\ last.value = last.receiver[Attribute[last.method]]
          /\ held[last.caller] = last.receiver

\* the path length 0 of a CA, read back
C13_Witness ==
    /\ last.receiver.type = "BasicConstraints"
    /\ last.method = "path_length"
    /\ last.receiver._ca = PyBool(TRUE)
    /\ last.value = Zero

----------------------------------------------------------------------------
(* C14 *)

\* x is None, or a list of GeneralName objects whose IPAddress names all
\* wrap networks
WellTypedSubtrees(x) ==
    \/ x = None
    \/ /\ isinstance(x, {"list"})
       /\ AllInstances(x, GeneralName)
       /\ \A i \in 1..Len(x.items) :
             isinstance(x.items[i], {"IPAddress"})
                 => isinstance(x.items[i].value, IPNetworkTypes)

\* the last call constructed a NameConstraints from two well-typed arguments
WellTypedNameConstraints ==
    /\ last.method = "NameConstraints.__init__"
    /\ WellTypedSubtrees(last.args[1])
    /\ WellTypedSubtrees(last.args[2])

\* C14 as stated: with well-typed lists, construction succeeds if and only if
\* exactly one of the two lists is not None.
C14_Original ==
    WellTypedNameConstraints =>
        (Succeeded <=> ((last.args[1] = None) # (last.args[2] = None)))

\* C14, amended: with well-typed lists, NameConstraints construction succeeds
\* if and only if at least one of the two lists is not None: it fails
\* (ValueError) when both are None and it succeeds when both are given, the
\* object keeping the two arguments.
C14_AtLeastOneSubtree ==
    WellTypedNameConstraints =>
        /\ Succeeded <=> (last.args[1] # None \/ last.args[2] # None)
        /\ (last.args[1] = None /\ last.args[2] = None) => last.exc.class = "ValueError"
        /\ Succeeded => /\ last.value._permitted_subtrees = last.args[1]
                        /\ last.value._excluded_subtrees = last.args[2]
        /\ HoldsConstructed

\* a NameConstraints constructed with both lists given
C14_Witness ==
    /\ WellTypedNameConstraints
    /\ last.args[1] # None
    /\ last.args[2] # None
    /\ last.args[1].items # <<>>
    /\ Succeeded
    /\ held[last.caller]._excluded_subtrees = last.args[2]

----------------------------------------------------------------------------
(* C15 *)

\* the places of the list x that hold an IPAddress wrapping something that
\* is not a network (none when x is None)
BareAddresses(x) ==
    IF x = None THEN {}
    ELSE {i \in 1..Len(x.items) :
             /\ isinstance(x.items[i], {"IPAddress"})
             /\ ~isinstance(x.items[i].value, IPNetworkTypes)}

IPNameError ==
    TypeError("IPAddress name constraints must be an IPv4Network or IPv6Network object")

\* C15: NameConstraints construction fails whenever an IPAddress entry of
\* either list wraps a bare address, at any place of the list and whatever the
\* other list holds; when every IPAddress entry wraps a network the IP check
\* raises nothing; so no constructed NameConstraints holds an IPAddress entry
\* that is not a network.
C15_NetworksOnly ==
    /\ last.method = "NameConstraints.__init__" =>
          /\ (BareAddresses(last.args[1]) # {} \/ BareAddresses(last.args[2]) # {})
                => Failed /\ HoldsConstructed
          /\ (BareAddresses(last.args[1]) = {} /\ BareAddresses(last.args[2]) = {})
                => last.exc # IPNameError
    /\ \A c \in DOMAIN held :
          held[c].type = "NameConstraints" =>
              /\ BareAddresses(held[c]._permitted_subtrees) = {}
              /\ BareAddresses(held[c]._excluded_subtrees) = {}

\* a bare address in the second place of excluded_subtrees, behind a network,
\* with a permitted_subtrees list that is fine
C15_Witness ==
    /\ last.method = "NameConstraints.__init__"
    /\ last.args[1] = PyList(<<DNSName("example.com")>>)
    /\ BareAddresses(last.args[2]) = {2}
    /\ last.args[2].items[1] = IPAddress(IPv4Network("10.0.0.0/8"))
    /\ last.exc = IPNameError

----------------------------------------------------------------------------
(* C16 *)

OnNewDistributionPoint == last.method = "DistributionPoint.__init__"

\* C16: DistributionPoint construction fails whenever full_name and
\* relative_name are both supplied (both not None), for every full_name list,
\* the empty list included, so every constructed DistributionPoint has at most
\* one of full_name and relative_name present.
C16_FullOrRelativeName ==
    /\ (OnNewDistributionPoint /\ last.args[1] # None /\ last.args[2] # None) => Failed
    /\ \A c \in DOMAIN held :
          held[c].type = "DistributionPoint" =>
              held[c]._full_name = None \/ held[c]._relative_name = None

----------------------------------------------------------------------------
(* C17 *)

\* the reasons a DistributionPoint may carry
ValidReasons == ReasonFlags \ {"unspecified", "remove_from_crl"}

\* C17: when reasons is supplied (not None), DistributionPoint construction
\* succeeds only if reasons is a non-empty frozenset of reason flags without
\* unspecified and remove_from_crl and one of crl_issuer, full_name and
\* relative_name is present as well; a supplied empty set is refused and no
\* constructed DistributionPoint holds an empty reasons set.
C17_ReasonsNonEmpty ==
    /\ (OnNewDistributionPoint /\ last.args[3] # None /\ Succeeded) =>
          /\ isinstance(last.args[3], {"frozenset"})
          /\ last.args[3].items # {}
          /\ last.args[3].items \subseteq ValidReasons
          /\ last.args[4] # None \/ last.args[1] # None \/ last.args[2] # None
    /\ (OnNewDistributionPoint /\ last.args[3] = PyFrozenset({})) => Failed
    /\ \A c \in DOMAIN held :
          held[c].type = "DistributionPoint" => held[c]._reasons # PyFrozenset({})

----------------------------------------------------------------------------
(* C18 *)

\* the last call constructed an AuthorityKeyIdentifier with an issuer that is
\* None or a list of GeneralName objects and a serial number that is None or
\* an integer
WellTypedAuthorityKeyIdentifier ==
    /\ last.method = "AuthorityKeyIdentifier.__init__"
    /\ \/ last.args[2] = None
       \/ isinstance(last.args[2], {"list"}) /\ AllInstances(last.args[2], GeneralName)
    /\ last.args[3] = None \/ isinstance(last.args[3], integer_types)

\* C18: with well-typed arguments, AuthorityKeyIdentifier construction
\* succeeds if and only if authority_cert_issuer and
\* authority_cert_serial_number are both given or both None, for every integer
\* serial number (0 included) and every issuer list (the empty list
\* included); no constructed AuthorityKeyIdentifier has one without the
\* other.
C18_IssuerAndSerialTogether ==
    /\ WellTypedAuthorityKeyIdentifier =>
          (Succeeded <=> ((last.args[2] = None) <=> (last.args[3] = None)))
    /\ \A c \in DOMAIN held :
          held[c].type = "AuthorityKeyIdentifier" =>
              ((held[c]._authority_cert_issuer = None)
                  <=> (held[c]._authority_cert_serial_number = None))

----------------------------------------------------------------------------
(* C19 *)

KeyIdentifierMethods ==
    {"_key_identifier_from_public_key", "SubjectKeyIdentifier.from_public_key",
     "AuthorityKeyIdentifier.from_issuer_public_key"}

\* the digest the last call computed
Digest ==
    CASE last.method = "SubjectKeyIdentifier.from_public_key" -> last.value._digest
      [] last.method = "AuthorityKeyIdentifier.from_issuer_public_key" ->
             last.value._key_identifier
      [] OTHER -> last.value

\* C19: the key identifier is the SHA-1 digest of exactly the bytes of the
\* subjectPublicKey bit string: for every bit string of a whole number of
\* bytes (one beginning with zero bytes and the empty one included), the data
\* given to the digest has as many bytes as the bit string and the same bits
\* in the same order, nothing padded, dropped or cut; the result is the
\* 160-bit digest of that data, so the same for every call with the same key.
C19_HashesTheBitString ==
    last.method \in KeyIdentifierMethods =>
        /\ Succeeded
        /\ Len(last.calls) = 1
        /\ Len(last.calls[1].data.items) = Len(last.args[1].spk)
        /\ last.calls[1].data.items = last.args[1].spk
        /\ Digest = sha1(last.calls[1].data)
        /\ Digest.digest_size * 8 = 160
        /\ Digest = sha1(PyBytes(held[last.caller].spk))

----------------------------------------------------------------------------
(* C20 *)

\* the last call compared two instances of one extension value class
ComparedSameVariant ==
    /\ last.method = "=="
    /\ last.receiver.obj.type = last.args[1].obj.type
    /\ isinstance(last.receiver.obj, ExtensionType)

\* C20: for every extension value class (OCSPNoCheck, which has no field,
\* KeyUsage with key_agreement false and NameConstraints included), == is
\* reflexive, symmetric and field-wise: two instances, constructed
\* separately or not, with the same field values are equal, and two that
\* differ in a field are not.
C20_EqualityFieldWise ==
    ComparedSameVariant =>
        /\ last.receiver.obj = last.args[1].obj => last.value = PyBool(TRUE)
        /\ last.receiver.obj # last.args[1].obj => last.value = PyBool(FALSE)
        /\ last.receiver.id = last.args[1].id => last.value = PyBool(TRUE)
        /\ last.value = PyEquals(last.args[1], last.receiver)

----------------------------------------------------------------------------
(* C21 *)

BuilderTypes == {"CertificateBuilder", "CertificateSigningRequestBuilder"}

\* self.method(*args) on the list heap: the method of the receiver's class
Invoke(self, method, args, heap) ==
    IF self.type = "CertificateSigningRequestBuilder"
    THEN CASE method = "subject_name" ->
                  CertificateSigningRequestBuilder_subject_name(self, args[1], heap)
           [] method = "add_extension" ->
                  CertificateSigningRequestBuilder_add_extension(self, args[1], args[2], heap)
           [] method = "sign" ->
                  CertificateSigningRequestBuilder_sign(self, args[1], args[2], args[3], heap)
    ELSE CASE method = "issuer_name" -> CertificateBuilder_issuer_name(self, args[1], heap)
           [] method = "subject_name" -> CertificateBuilder_subject_name(self, args[1], heap)
           [] method = "public_key" -> CertificateBuilder_public_key(self, args[1], heap)
           [] method = "serial_number" -> CertificateBuilder_serial_number(self, args[1], heap)
           [] method = "not_valid_before" ->
                  CertificateBuilder_not_valid_before(self, args[1], heap)
           [] method = "not_valid_after" ->
                  CertificateBuilder_not_valid_after(self, args[1], heap)
           [] method = "add_extension" ->
                  CertificateBuilder_add_extension(self, args[1], args[2], heap)
           [] method = "sign" ->
                  CertificateBuilder_sign(self, args[1], args[2], args[3], heap)

\* a builder with the items of its list, anything else as it is
DeepValue(v, heap) == IF v.type \in BuilderTypes THEN Deep(v, heap) ELSE v

\* what a call is seen to do: what it raises, what it returns and what it
\* hands to the backend, each builder with the items of its list
Outcome(exc, value, calls, heap) ==
    [exc |-> exc, value |-> DeepValue(value, heap),
     calls |-> [i \in DOMAIN calls |->
                   [calls[i] EXCEPT !.builder = DeepValue(@, heap)]]]

\* the builder b, given with the items of its list, standing in a heap of its
\* own
Standing(b) ==
    LET a == NewAddr(ImportedLists)
    IN [builder |-> [b EXCEPT !._extensions = a],
        heap |-> Alloc(ImportedLists, a, b._extensions)]

\* what method(*args) does on the builder b, given with the items of its list
OutcomeOn(b, method, args) ==
    LET run == Invoke(Standing(b).builder, method, args, Standing(b).heap)
    IN Outcome(run.exc, run.value, run.calls, run.heap)

\* the calls a caller may make on a builder of each class
CallsOn(b) ==
    LET setters == IF b.type = "CertificateBuilder" THEN ScalarSetters ELSE {"subject_name"}
    IN {<<m, <<x>> >> : m \in setters,
                       x \in NameArgs \cup PublicKeyArgs \cup FieldArgs.serials
                               \cup FieldArgs.times}
       \cup {<<"add_extension", <<e, x>> >> : e \in ExtensionArgs, x \in CriticalArgs}
       \cup {<<"sign", <<k, a, d>> >> : k \in PrivateKeys, a \in Algorithms, d \in Backends}

\* after sign the caller holds the receiver, with the fields and the list it
\* had; every call on it, sign again included, does what it does on the
\* builder as it was before sign
SignedAsBefore ==
    last.method = "sign" =>
        /\ held[last.caller] = last.receiver
        /\ Deep(last.receiver, lists) = last.before
        /\ \A call \in CallsOn(last.receiver) :
              LET run == Invoke(held[last.caller], call[1], call[2], lists)
              IN Outcome(run.exc, run.value, run.calls, run.heap)
                     = OutcomeOn(last.before, call[1], call[2])
        /\ Outcome(last.exc, last.value, last.calls, lists)
               = OutcomeOn(last.before, "sign", last.args)

\* the call made right after a sign does what it does on the builder as it was
\* before that sign
LaterCallAsBefore ==
    (last.method = "sign" /\ last'.method \in ScalarSetters \cup {"add_extension", "sign"})
        => /\ last'.receiver = last.receiver
           /\ last'.before = last.before
           /\ Outcome(last'.exc, last'.value, last'.calls, lists')
                  = OutcomeOn(last.before, last'.method, last'.args)

\* C21: sign does not consume or alter the builder.  After any sign, whether
\* it failed for a missing field, failed in the backend or returned, the
\* caller holds the same builder with the same fields and extension list, and
\* every later setter, add_extension or sign on it ends as it would have ended
\* before the sign; signing again reaches the backend again.
C21_SignLeavesBuilder == []SignedAsBefore /\ [][LaterCallAsBefore]_vars

\* a sign that returned the artifact, on a builder holding an extension
C21_Witness ==
    /\ OnCertificateBuilder
    /\ last.method = "sign"
    /\ Succeeded
    /\ last.value = [type |-> "backend artifact"]
    /\ Len(last.before._extensions) = 1
    /\ Len(lists[held[last.caller]._extensions]) = 1
    /\ OutcomeOn(last.before, "sign", last.args).exc = NoException

----------------------------------------------------------------------------
(* C22 *)

Constructors ==
    {"CertificateBuilder.__init__", "CertificateSigningRequestBuilder.__init__"}

\* the list of the builder a successful add_extension returned is the
\* receiver's list with the new extension behind it
AppendedLast ==
    (last.method = "add_extension" /\ Succeeded) =>
        /\ lists[last.value._extensions] = Append(last.before._extensions, Added)
        /\ lists[last.value._extensions][Len(last.before._extensions) + 1] = Added
        /\ SubSeq(lists[last.value._extensions], 1, Len(last.before._extensions))
               = last.before._extensions

\* a step changes the list of the builder its caller holds in one way only:
\* a successful add_extension puts its extension behind the others, and a
\* constructor starts from no extension; a setter, a sign and any call that
\* fails leave the list as it is
GrowsAtTheEnd ==
    \A c \in DOMAIN held :
        lists'[held'[c]._extensions] =
            IF last'.caller = c /\ last'.method = "add_extension"
                   /\ last'.exc = NoException
            THEN Append(lists[held[c]._extensions], Added')
            ELSE IF last'.caller = c /\ last'.method \in Constructors
            THEN <<>>
            ELSE lists[held[c]._extensions]

\* C22: insertion order is preserved.  A successful add_extension returns a
\* builder whose list is the receiver's list followed by the new extension as
\* its last element, and no other call changes a list, so the extensions of
\* any builder reached from an empty one are in the order of the successful
\* add_extension calls, whatever setters and failed calls came in between.
C22_InsertionOrder == []AppendedLast /\ [][GrowsAtTheEnd]_vars

\* BasicConstraints added before OCSPNoCheck and kept in that order by a
\* setter called afterwards
C22_Witness ==
    /\ OnCertificateBuilder
    /\ last.method \in ScalarSetters
    /\ Succeeded
    /\ Len(lists[held[last.caller]._extensions]) = 2
    /\ lists[held[last.caller]._extensions][1].oid = "BASIC_CONSTRAINTS"
    /\ lists[held[last.caller]._extensions][2].oid = "OCSP_NO_CHECK"

----------------------------------------------------------------------------
(* C23 *)

\* values each setter accepts on a builder whose field is unset
ValidArgs ==
    [issuer_name |-> Names, subject_name |-> Names, public_key |-> PublicKeys,
     serial_number |-> {Zero, Pow2(MaxSerialBits - 1)},
     not_valid_before |-> {Datetime(1), Datetime(2)},
     not_valid_after |-> {Datetime(1), Datetime(2)}]

\* the calls of the scalar setters of b's class, and of add_extension, with
\* valid values
SetterCalls(b) ==
    UNION {{<<m, <<x>> >> : x \in ValidArgs[m]} :
               m \in (IF b.type = "CertificateBuilder" THEN ScalarSetters
                                                       ELSE {"subject_name"})}
AddExtensionCalls ==
    {<<"add_extension", <<OCSPNoCheck, PyBool(TRUE)>> >>,
     <<"add_extension", <<BasicConstraints(PyBool(FALSE), None), PyBool(FALSE)>> >>}

\* what is left when a call of a chain raised
Failure == [type |-> "failure"]

\* b.m1(x1).m2(x2)... for the calls from the i-th on: the builder the chain
\* yields, with the items of its list, or Failure when one of the calls raises
RECURSIVE InTurn(_, _, _, _)
InTurn(b, heap, calls, i) ==
    IF i > Len(calls) THEN Deep(b, heap)
    ELSE LET run == Invoke(b, calls[i][1], calls[i][2], heap)
         IN IF run.exc # NoException THEN Failure
            ELSE InTurn(run.value, run.heap, calls, i + 1)

\* the methods in the order of their definition in the class
MethodIndex ==
    [issuer_name |-> 1, subject_name |-> 2, public_key |-> 3, serial_number |-> 4,
     not_valid_before |-> 5, not_valid_after |-> 6, add_extension |-> 7]

\* the pairs the claim speaks of: two different scalar setters, or a scalar
\* setter and add_extension, each with a value valid for it (each pair once:
\* "the same in either order" does not depend on which call is named first)
CommutingPairs(b) ==
    {pair \in (SetterCalls(b) \cup AddExtensionCalls) \X (SetterCalls(b) \cup AddExtensionCalls) :
        MethodIndex[pair[1][1]] < MethodIndex[pair[2][1]]}

\* on every builder a caller holds, the two calls of a pair give the same in
\* either order
PairsCommute ==
    \A c \in DOMAIN held :
        held[c].type \in BuilderTypes =>
            \A pair \in CommutingPairs(held[c]) :
                InTurn(held[c], lists, <<pair[1], pair[2]>>, 1)
                    = InTurn(held[c], lists, <<pair[2], pair[1]>>, 1)

\* the orders of the six mandatory setters
Orders ==
    {f \in [1..6 -> ScalarSetters] : \A i, j \in 1..6 : f[i] = f[j] => i = j}

\* the setters called in the order f, each with the value values gives it
InOrder(f, values) == [i \in 1..6 |-> <<f[i], <<values[f[i]]>> >>]

\* the builder with the six fields set to values and no extension
ReadyBuilder(values) ==
    Deep(CertificateBuilder(values.issuer_name, values.subject_name, values.public_key,
                            values.serial_number, values.not_valid_before,
                            values.not_valid_after, DefaultCertExtensions),
         ImportedLists)

\* every order of the six setters, called on an empty builder, yields the
\* builder with the six values
EveryOrderReady(values) ==
    \A f \in Orders :
        InTurn(EmptyCertificateBuilder, ImportedLists, InOrder(f, values), 1)
            = ReadyBuilder(values)

\* the values of the six fields of b, by setter
FieldValues(b) == [m \in ScalarSetters |-> b[TargetField[m]]]

\* C23: setters on distinct fields commute.  Two different scalar setters, or
\* a scalar setter and add_extension, called with valid values on the same
\* builder in either order, fail in both orders or yield builders with the
\* same fields and the same extension list; and every order of the six
\* mandatory setters from an empty builder yields the same Ready builder: the
\* one a caller holds when the last of the six fields has been set.
C23_SettersCommute ==
    /\ PairsCommute
    /\ (OnCertificateBuilder /\ last.method \in ScalarSetters /\ Succeeded
            /\ \A m \in ScalarSetters : last.value[TargetField[m]] # None
            /\ last.before._extensions = <<>>)
        => /\ Deep(held[last.caller], lists) = ReadyBuilder(FieldValues(last.value))
           /\ EveryOrderReady(FieldValues(last.value))

\* the six fields set with the public key last, the expiration time before
\* the activation time: the builder every order yields
C23_Witness ==
    /\ OnCertificateBuilder
    /\ last.method = "public_key"
    /\ Succeeded
    /\ last.before._extensions = <<>>
    /\ last.before._not_valid_before = Datetime(2)
    /\ last.before._not_valid_after = Datetime(1)
    /\ Deep(held[last.caller], lists) = ReadyBuilder(FieldValues(last.value))
    /\ InTurn(last.receiver, lists,
              <<<<"add_extension", <<OCSPNoCheck, PyBool(TRUE)>> >>,
                <<last.method, last.args>> >>, 1)
           = InTurn(last.receiver, lists,
                    <<<<last.method, last.args>>,
                      <<"add_extension", <<OCSPNoCheck, PyBool(TRUE)>> >> >>, 1)
    /\ InTurn(last.receiver, lists, <<<<last.method, last.args>> >>, 1) # Failure

----------------------------------------------------------------------------
(* C24 *)

\* the two default lists hold nothing
DefaultsEmpty == \A a \in DefaultLists : lists[a] = <<>>

\* a builder constructed without arguments refers to the default list of its
\* class and has no extension
NewBuilderEmpty ==
    last.method \in Constructors =>
        /\ held[last.caller]._extensions =
              (IF OnCertificateBuilder THEN DefaultCertExtensions
                                       ELSE DefaultCSRExtensions)
        /\ lists[held[last.caller]._extensions] = <<>>
        /\ \A m \in ScalarSetters : TargetField[m] \in DOMAIN held[last.caller]
                                        => held[last.caller][TargetField[m]] = None

\* the builder a successful add_extension returns has a list object of its
\* own, which is not a default list, and the receiver's list object holds
\* what it held; builders that refer to one list object (a setter's receiver
\* and its result) have the same extensions
NoAliasAcrossDifference ==
    /\ (last.method = "add_extension" /\ Succeeded) =>
          /\ last.value._extensions # last.receiver._extensions
          /\ last.value._extensions \notin DefaultLists
          /\ lists[last.receiver._extensions] = last.before._extensions
          /\ lists[last.value._extensions] # lists[last.receiver._extensions]
    /\ (last.method \in ScalarSetters /\ Succeeded) =>
          /\ last.value._extensions = last.receiver._extensions
          /\ lists[last.value._extensions] = last.before._extensions

\* no step changes the items of a list object
NoListChanged == \A a \in (DOMAIN lists) \cap (DOMAIN lists') : lists'[a] = lists[a]

DefaultListsKept == DefaultsEmpty /\ NewBuilderEmpty /\ NoAliasAcrossDifference

\* C24: the default extension list of each __init__ is never changed in
\* place.  After any sequence of add_extension, setter and sign calls a newly
\* constructed CertificateBuilder() or CertificateSigningRequestBuilder() has
\* no extension, no call changes the items of a list object, and builders
\* with different accumulated extensions never refer to the same list.
C24_DefaultListUntouched == []DefaultListsKept /\ [][NoListChanged]_vars

\* add_extension called on a request builder that refers to the default
\* list: the default list is still empty and the result has its own list
C24_Witness ==
    /\ OnCSRBuilder
    /\ last.method = "add_extension"
    /\ Succeeded
    /\ last.receiver._extensions = DefaultCSRExtensions
    /\ lists[DefaultCSRExtensions] = <<>>
    /\ Len(lists[held[last.caller]._extensions]) = 1
    /\ last.before._subject_name # None

----------------------------------------------------------------------------
(* C25 *)

\* the seven flags other than encipher_only and decipher_only
OtherSevenFlags ==
    {"_digital_signature", "_content_commitment", "_key_encipherment",
     "_data_encipherment", "_key_agreement", "_key_cert_sign", "_crl_sign"}

\* r refers to a KeyUsage whose key_agreement is false
KeyUsageWithoutAgreement(r) ==
    /\ r # None
    /\ r.obj.type = "KeyUsage"
    /\ r.obj._key_agreement = PyBool(FALSE)

\* the two KeyUsage objects have the same seven other flags
SameOtherFlags(r, s) == \A f \in OtherSevenFlags : r.obj[f] = s.obj[f]

\* C25: KeyUsage(...) with boolean flags raises ValueError whenever
\* key_agreement is false and encipher_only or decipher_only is true, and
\* binds nothing; so every KeyUsage constructed with key_agreement false
\* stores encipher_only and decipher_only as False, and two such objects with
\* the same seven other flags compare equal, both ways.
C25_KeyUsageConstruction ==
    /\ last.method = "KeyUsage.__init__" =>
          /\ (last.args[5] = PyBool(FALSE)
                  /\ (last.args[8] = PyBool(TRUE) \/ last.args[9] = PyBool(TRUE)))
              => /\ last.exc.class = "ValueError"
                 /\ last.value = None
          /\ Succeeded => held[last.caller] = last.value
    /\ \A v \in DOMAIN held :
          KeyUsageWithoutAgreement(held[v]) =>
              /\ held[v].obj._encipher_only = PyBool(FALSE)
              /\ held[v].obj._decipher_only = PyBool(FALSE)
    /\ \A v, w \in DOMAIN held :
          (KeyUsageWithoutAgreement(held[v]) /\ KeyUsageWithoutAgreement(held[w])
              /\ SameOtherFlags(held[v], held[w]))
          => PyEquals(held[v], held[w]) = PyBool(TRUE)
    /\ (last.method = "==" /\ KeyUsageWithoutAgreement(last.receiver)
            /\ KeyUsageWithoutAgreement(last.args[1])
            /\ SameOtherFlags(last.receiver, last.args[1]))
        => last.value = PyBool(TRUE)

\* two KeyUsage objects constructed separately with key_agreement false and
\* digital_signature true, compared
C25_Witness ==
    /\ last.method = "=="
    /\ KeyUsageWithoutAgreement(last.receiver)
    /\ KeyUsageWithoutAgreement(last.args[1])
    /\ last.receiver.id # last.args[1].id
    /\ last.receiver.obj._digital_signature = PyBool(TRUE)
    /\ SameOtherFlags(last.receiver, last.args[1])
    /\ last.value = PyBool(TRUE)

============================================================================
